---- MODULE Spec2Model ----
(***************************************************************************)
(* gh-iterator: the concurrent pipeline of RunForOrganization.             *)
(*                                                                         *)
(* The state is the one RunForOrganization holds once the pages are        *)
(* decoded: the three channels repoC, errC and doneC, the wait group, the  *)
(* three counters, the variable err that the worker closures capture, and  *)
(* the position of the producer, of every worker and of the run loop.      *)
(* A panic of any goroutine ends the process: no action is enabled after.  *)
(***************************************************************************)
EXTENDS Integers, Sequences, FiniteSets, TLC

\* ---------------------------------------------------------------- bounds
MaxRepos == 2
MaxPages == 2
MaxWorkers == 2
MaxCalls == 2
MaxNames == 1
MaxTime == 2
MaxOrgReturns == 1
MaxBuilds == 2
MaxApplications == 2
MaxLines == 3
MaxLineLen == 2
MaxSubset == 2
MaxKv == 4

\* ------------------------------------------------------- program constants
defaultNumberOfWorkers == 10

\* Clock ticks in a second.
TicksPerSecond == 2

\* ---------------------------------------------------------------- inputs
\* The records a listing page can hold, reduced to the fields the pipeline
\* reads: Language (the filter), Size and DefaultBranchName
\* (processRepository and cloneRepository): a repository with content and a
\* default branch, one the filter rejects, one without default branch, and
\* an empty one (size zero).
RepoKinds ==
    { [Language |-> "Go",     Size |-> 1, DefaultBranchName |-> "main"],
      [Language |-> "Python", Size |-> 1, DefaultBranchName |-> "main"],
      [Language |-> "Go",     Size |-> 1, DefaultBranchName |-> ""],
      [Language |-> "Go",     Size |-> 0, DefaultBranchName |-> "main"] }

SeqsUpTo(S, n) == UNION { [1..k -> S] : k \in 0..n }

RECURSIVE SumLen(_)
SumLen(pages) ==
    IF pages = << >> THEN 0 ELSE Len(Head(pages)) + SumLen(Tail(pages))

\* At most MaxPages pages holding at most MaxRepos records in total.  The
\* decoder ends at the first line "[]", so a page of a longer listing is
\* never empty; the listing of one empty page stands for the empty ones.
PageInputs ==
    { ps \in SeqsUpTo(SeqsUpTo(RepoKinds, MaxRepos), MaxPages) :
        /\ SumLen(ps) <= MaxRepos
        /\ \A i \in 1..Len(ps) : ps[i] # << >> \/ Len(ps) = 1 }

VARIABLES
    repoPages,      \* [][]Repository, the decoded pages
    searchOpts,     \* SearchOptions (the fields MakeFilterIn reads)
    nOfWorkers,     \* number of workers started
    ctxDone,        \* ctx.Done() is closed
    repoC,          \* buffered channel of repositories (names)
    repoCClosed,
    errC,           \* buffered channel of errors
    errCClosed,
    doneCClosed,    \* doneC is unbuffered and only ever closed
    wg,             \* sync.WaitGroup counter
    mFound, mInspected, mProcessed,
    err,            \* the variable err of RunForOrganization, shared by the workers
    pPc, pPage, pIdx,       \* producer goroutine
    wPc, wRepo,             \* worker goroutines
    cPc, cErr,              \* run loop of RunForOrganization
    retResult, retErr,      \* what RunForOrganization returned
    panicked,               \* a goroutine panicked: the process is gone
    invoked,                \* history: processor invocations per repository
    outcome,                \* history: what processRepository returned per repository
    cancelInFlight,         \* history: ctx was cancelled during a processor invocation
    enqueued,               \* history: the repositories the producer sent on repoC
    \* --- the working copies (processRepository and the clone cache)
    now,                    \* time.Now(), in clock ticks
    reposDir,               \* the directories that exist under reposDir
    callRepo,               \* per call of processRepository: its repo and opts
    pcCall,                 \* per call: position in processRepository
    cacheKey,               \* per call: cacheKey of cloneRepositoryOrGetFromCache
    shouldReturnDirectly,   \* per call
    repoDir,                \* per call: the path returned and handed to the processor
    callErr,                \* per call: what processRepository returned
    nOrgReturns,            \* returns of RunForOrganization (deferred RemoveAll)
    invocations,            \* history, per call: processor invocations <<isEmpty, dir>>
    acquired,               \* history, per call: cloneRepositoryOrGetFromCache was called
    materialized,           \* history, per call: it ran cloneRepository
    cached,                 \* history: cache entries whose materialization completed
    overlapped,             \* history: two acquisitions were in progress at once
    \* --- one call of a function that runs before the pipeline starts
    fnCall,                 \* the function called and its arguments
    fnRet                   \* how far the call is and what it has returned

vars == << repoPages, searchOpts, nOfWorkers, ctxDone, repoC, repoCClosed, errC,
           errCClosed, doneCClosed, wg, mFound, mInspected, mProcessed, err,
           pPc, pPage, pIdx, wPc, wRepo, cPc, cErr, retResult, retErr,
           panicked, invoked, outcome, cancelInFlight, enqueued,
           now, reposDir, callRepo, pcCall, cacheKey, shouldReturnDirectly,
           repoDir, callErr, nOrgReturns, invocations, acquired, materialized,
           cached, overlapped, fnCall, fnRet >>

\* The state of the working copies, and the state of the pipeline.
wcVars == << now, reposDir, callRepo, pcCall, cacheKey, shouldReturnDirectly,
            repoDir, callErr, nOrgReturns, invocations, acquired, materialized,
            cached, overlapped >>

pipelineVars == << repoPages, searchOpts, nOfWorkers, ctxDone, repoC, repoCClosed,
                  errC, errCClosed, doneCClosed, wg, mFound, mInspected,
                  mProcessed, err, pPc, pPage, pIdx, wPc, wRepo, cPc, cErr,
                  retResult, retErr, panicked, invoked, outcome, cancelInFlight,
                  enqueued >>

\* The state of a call of MakeFilterIn, processRepoPages, fillLines or of the
\* set-up of RunForOrganization.
fnVars == << fnCall, fnRet >>

\* ---------------------------------------------------------------- helpers
\* The name of a record: its position in page order (names are unique).
NameAt(pages, p, i) == SumLen(SubSeq(pages, 1, p - 1)) + i

RECURSIVE Flatten(_)
Flatten(pages) ==
    IF pages = << >> THEN << >> ELSE Head(pages) \o Flatten(Tail(pages))

Repo(name) == Flatten(repoPages)[name]

Names == 1..SumLen(repoPages)

Workers == 1..nOfWorkers

\* ----------------------------------------------------------------- errors
NilErr == [kind |-> "nil", name |-> 0, cause |-> 0, inner |-> "nil"]

errNoDefaultBranch == [kind |-> "nobranch", name |-> 0, cause |-> 0, inner |-> "nil"]

\* The error processRepository returns for repository r when the processor or
\* a git command fails ("processing repository: ...", "fetching HEAD: ...").
FailErr(r) == [kind |-> "fail", name |-> 0, cause |-> r, inner |-> "nil"]

\* fmt.Errorf("processing %q: %w", repo.Name, err)
WrapErr(name, e) == [kind |-> "processing", name |-> name, cause |-> e.cause, inner |-> e.kind]

ctxErr == [kind |-> "canceled", name |-> 0, cause |-> 0, inner |-> "nil"]

ZeroResult == [Found |-> 0, Inspected |-> 0, Processed |-> 0]

\* ------------------------------------------------------- working copies
\* Calls of processRepository: by RunForRepository, or by the workers of
\* RunForOrganization.
Calls == 1..MaxCalls

\* What a call is given: repo (Name, Size, DefaultBranchName) and the string
\* opts.CloneCacheKey(repo) yields ("" also stands for a nil CloneCacheKey).
CallInputs ==
    [ Name : 1..MaxNames, Size : {0, 1}, DefaultBranchName : {"", "main"},
      Key : {"", "k"} ]

\* The calls run the same code, so the inputs of the calls are taken in one
\* order only.
InputIndex(r) ==
    8 * (r.Name - 1) + 4 * r.Size
      + (IF r.DefaultBranchName = "" THEN 0 ELSE 2) + (IF r.Key = "" THEN 0 ELSE 1)

CallInputsOf ==
    { f \in [Calls -> CallInputs] :
        \A c \in 1..(MaxCalls - 1) : InputIndex(f[c]) <= InputIndex(f[c + 1]) }

\* time.Now().Format("02T15_04_05"): day of the month, hour, minute and
\* second of t; whatever is finer than the second is dropped.
StampTexts == << "01T00_00_00", "01T00_00_01", "01T00_00_02", "01T00_00_03" >>

FormatStamp(t) == StampTexts[(t \div TicksPerSecond) + 1]

\* time.Now().Format("_999999"): the layout has no reference element (a run
\* of 9s is a fraction of the second only after "." or ","), so the text is
\* the layout itself, whatever t is.
FormatSuffix(t) == "_999999"

\* path.Join(reposDir, repo.Name+"-"+cacheKey), and what is appended to it.
Path(name, key, suffix) == [name |-> name, key |-> key, suffix |-> suffix]

CloneDir(c) == Path(callRepo[c].Name, cacheKey[c], "")

\* cloneDir + "_" + time.Now().Format("_999999")
DupDir(c) == Path(callRepo[c].Name, cacheKey[c], "_" \o FormatSuffix(now))

NoPath == Path(0, "", "")

\* No call of processRepository is under way (the pipeline is modelled
\* with the outcome of processRepository only).
NoCalls ==
    /\ now = 0
    /\ reposDir = {}
    /\ callRepo = << >>
    /\ pcCall = << >>
    /\ cacheKey = << >>
    /\ shouldReturnDirectly = << >>
    /\ repoDir = << >>
    /\ callErr = << >>
    /\ nOrgReturns = 0
    /\ invocations = << >>
    /\ acquired = << >>
    /\ materialized = << >>
    /\ cached = {}
    /\ overlapped = FALSE

\* No function call is under way.
NoFn ==
    /\ fnCall = [op |-> "none"]
    /\ fnRet = [pc |-> "none"]

\* ----------------------------------------------------------------- set-up
NumberOfWorkersOf(n) == IF n > 0 THEN n ELSE defaultNumberOfWorkers

\* SearchOptions.MakeFilterIn, for the Language dimension.
filterIn(r) == (searchOpts.Language # "") => (r.Language = searchOpts.Language)

Init ==
    /\ repoPages \in PageInputs
    /\ searchOpts = [Language |-> "Go"]
    /\ \E n \in 1..MaxWorkers : nOfWorkers = NumberOfWorkersOf(n)
    /\ ctxDone = FALSE
    /\ repoC = << >> /\ repoCClosed = FALSE
    /\ errC = << >> /\ errCClosed = FALSE
    /\ doneCClosed = FALSE
    /\ wg = nOfWorkers
    /\ mFound = SumLen(repoPages)
    /\ mInspected = 0 /\ mProcessed = 0
    /\ err = NilErr
    /\ pPc = "inspect" /\ pPage = 1 /\ pIdx = 1
    /\ wPc = [w \in Workers |-> "recv"]
    /\ wRepo = [w \in Workers |-> 0]
    /\ cPc = "select" /\ cErr = NilErr
    /\ retResult = ZeroResult /\ retErr = NilErr
    /\ panicked = FALSE
    /\ invoked = [k \in Names |-> 0]
    /\ outcome = [k \in Names |-> "none"]
    /\ cancelInFlight = FALSE
    /\ enqueued = << >>
    /\ NoCalls
    /\ NoFn

inputVars == << repoPages, searchOpts, nOfWorkers >>
counterVars == << mFound, mInspected, mProcessed >>
producerVars == << pPc, pPage, pIdx >>
workerVars == << wPc, wRepo >>
runVars == << cPc, cErr, retResult, retErr >>
histVars == << invoked, outcome >>

\* The workers that are inside a processor invocation.
Running == { w \in Workers : wPc[w] \in {"procEmpty", "proc"} }

\* ------------------------------------------------------------ the context
\* The caller cancels ctx (in the tests, from inside the processor).
Cancel ==
    /\ ~panicked
    /\ ~ctxDone
    /\ ctxDone' = TRUE
    /\ cancelInFlight' = (Running # {})
    /\ UNCHANGED << inputVars, repoC, repoCClosed, errC, errCClosed, doneCClosed, wg,
                    counterVars, err, producerVars, workerVars, runVars, panicked,
                    histVars, enqueued, wcVars, fnVars >>

\* ----------------------------------------------------------- the producer
\* for _, repoPage := range repoPages: the inner loop is over, next page.
ProducerNextPage ==
    /\ ~panicked
    /\ pPc = "inspect"
    /\ pPage <= Len(repoPages)
    /\ pIdx > Len(repoPages[pPage])
    /\ pPage' = pPage + 1
    /\ pIdx' = 1
    /\ UNCHANGED << inputVars, ctxDone, repoC, repoCClosed, errC, errCClosed,
                    doneCClosed, wg, counterVars, err, pPc, workerVars, runVars,
                    panicked, histVars,
                    cancelInFlight, enqueued, wcVars, fnVars >>

\* A producer that counts the rejected records as processed.
ProducerInspect_CountRejected ==
    /\ ~panicked
    /\ pPc = "inspect"
    /\ pPage <= Len(repoPages)
    /\ pIdx <= Len(repoPages[pPage])
    /\ mInspected' = mInspected + 1
    /\ IF ~filterIn(repoPages[pPage][pIdx])
         THEN /\ mProcessed' = mProcessed + 1
              /\ pPc' = "inspect"
              /\ pIdx' = pIdx + 1
              /\ repoCClosed' = repoCClosed
         ELSE /\ mProcessed' = mProcessed + 1
              /\ pIdx' = pIdx
              /\ IF doneCClosed \/ ctxDone
                   THEN /\ pPc' = "done"
                        /\ repoCClosed' = TRUE
                   ELSE /\ pPc' = "send"
                        /\ repoCClosed' = repoCClosed
    /\ UNCHANGED << inputVars, ctxDone, repoC, errC, errCClosed, doneCClosed, wg,
                    mFound, err, pPage, workerVars, runVars, panicked, histVars,
                    cancelInFlight, enqueued, wcVars, fnVars >>

\* mMux.Lock(); mInspected++; if !filterIn(repo) { Unlock; continue };
\* mProcessed++; mMux.Unlock();
\* select { case <-doneC: return; case <-ctx.Done(): return; default: }
\* Only the producer touches the counters during the walk, so the counting
\* and the select that follows it are one step.  A return runs the deferred
\* close(repoC).
ProducerInspect ==
    /\ ~panicked
    /\ pPc = "inspect"
    /\ pPage <= Len(repoPages)
    /\ pIdx <= Len(repoPages[pPage])
    /\ mInspected' = mInspected + 1
    /\ IF ~filterIn(repoPages[pPage][pIdx])
         THEN /\ mProcessed' = mProcessed
              /\ pPc' = "inspect"
              /\ pIdx' = pIdx + 1
              /\ repoCClosed' = repoCClosed
         ELSE /\ mProcessed' = mProcessed + 1
              /\ pIdx' = pIdx
              /\ IF doneCClosed \/ ctxDone
                   THEN /\ pPc' = "done"
                        /\ repoCClosed' = TRUE
                   ELSE /\ pPc' = "send"
                        /\ repoCClosed' = repoCClosed
    /\ UNCHANGED << inputVars, ctxDone, repoC, errC, errCClosed, doneCClosed, wg,
                    mFound, err, pPage, workerVars, runVars, panicked, histVars,
                    cancelInFlight, enqueued, wcVars, fnVars >>

\* A producer that sends a record and inspects it again.
ProducerSend_Again ==
    /\ ~panicked
    /\ pPc = "send"
    /\ Len(repoC) < nOfWorkers
    /\ repoC' = Append(repoC, NameAt(repoPages, pPage, pIdx))
    /\ enqueued' = Append(enqueued, NameAt(repoPages, pPage, pIdx))
    /\ pPc' = "inspect"
    /\ pIdx' = pIdx
    /\ UNCHANGED << inputVars, ctxDone, repoCClosed, errC, errCClosed, doneCClosed,
                    wg, counterVars, err, pPage, workerVars, runVars, panicked,
                    histVars,
                    cancelInFlight, wcVars, fnVars >>

\* A producer whose send does not wait for room in the buffer.
ProducerSend_NoBlock ==
    /\ ~panicked
    /\ pPc = "send"
    /\ repoC' = Append(repoC, NameAt(repoPages, pPage, pIdx))
    /\ enqueued' = Append(enqueued, NameAt(repoPages, pPage, pIdx))
    /\ pPc' = "inspect"
    /\ pIdx' = pIdx + 1
    /\ UNCHANGED << inputVars, ctxDone, repoCClosed, errC, errCClosed, doneCClosed,
                    wg, counterVars, err, pPage, workerVars, runVars, panicked,
                    histVars,
                    cancelInFlight, wcVars, fnVars >>

\* repoC <- repo: blocks while the buffer is full.
ProducerSend ==
    /\ ~panicked
    /\ pPc = "send"
    /\ Len(repoC) < nOfWorkers
    /\ repoC' = Append(repoC, NameAt(repoPages, pPage, pIdx))
    /\ enqueued' = Append(enqueued, NameAt(repoPages, pPage, pIdx))
    /\ pPc' = "inspect"
    /\ pIdx' = pIdx + 1
    /\ UNCHANGED << inputVars, ctxDone, repoCClosed, errC, errCClosed, doneCClosed,
                    wg, counterVars, err, pPage, workerVars, runVars, panicked,
                    histVars,
                    cancelInFlight, wcVars, fnVars >>

\* The walk is over: close(doneC), then the deferred close(repoC).
\* Closing a closed channel panics.
ProducerFinish ==
    /\ ~panicked
    /\ pPc = "inspect"
    /\ pPage > Len(repoPages)
    /\ IF doneCClosed
         THEN /\ panicked' = TRUE
              /\ UNCHANGED << doneCClosed, pPc >>
         ELSE /\ doneCClosed' = TRUE
              /\ pPc' = "done"
              /\ panicked' = FALSE
    /\ repoCClosed' = TRUE
    /\ UNCHANGED << inputVars, ctxDone, repoC, errC, errCClosed, wg, counterVars,
                    err, pPage, pIdx, workerVars, runVars, histVars,
                    cancelInFlight, enqueued, wcVars, fnVars >>

\* ------------------------------------------------------------ the workers
\* A receive by worker 1 that leaves the repository in the queue.
WorkerRecv_Peek(w) ==
    /\ ~panicked
    /\ wPc[w] = "recv"
    /\ \/ /\ repoC # << >>
          /\ wRepo' = [wRepo EXCEPT ![w] = Head(repoC)]
          /\ repoC' = IF nOfWorkers > 1 /\ w = 1 THEN repoC ELSE Tail(repoC)
          /\ wPc' = [wPc EXCEPT ![w] = "select"]
          /\ wg' = wg
       \/ /\ repoC = << >>
          /\ repoCClosed
          /\ wPc' = [wPc EXCEPT ![w] = "exit"]
          /\ wg' = wg - 1
          /\ UNCHANGED << repoC, wRepo >>
    /\ UNCHANGED << inputVars, ctxDone, repoCClosed, errC, errCClosed, doneCClosed,
                    counterVars, err, producerVars, runVars, panicked, histVars,
                    cancelInFlight, enqueued, wcVars, fnVars >>

\* for repo := range repoC: receive, or leave the loop once repoC is closed
\* and empty (the deferred wg.Done() runs).
WorkerRecv(w) ==
    /\ ~panicked
    /\ wPc[w] = "recv"
    /\ \/ /\ repoC # << >>
          /\ wRepo' = [wRepo EXCEPT ![w] = Head(repoC)]
          /\ repoC' = Tail(repoC)
          /\ wPc' = [wPc EXCEPT ![w] = "select"]
          /\ wg' = wg
       \/ /\ repoC = << >>
          /\ repoCClosed
          /\ wPc' = [wPc EXCEPT ![w] = "exit"]
          /\ wg' = wg - 1
          /\ UNCHANGED << repoC, wRepo >>
    /\ UNCHANGED << inputVars, ctxDone, repoCClosed, errC, errCClosed, doneCClosed,
                    counterVars, err, producerVars, runVars, panicked, histVars,
                    cancelInFlight, enqueued, wcVars, fnVars >>

\* processRepository returns e for the worker's repository: err = e.
ReturnFromProcess(w, e, what) ==
    /\ err' = e
    /\ outcome' = [outcome EXCEPT ![wRepo[w]] = what]
    /\ wPc' = [wPc EXCEPT ![w] = "check"]

\* cloneRepositoryOrGetFromCache for the worker's repository, and what
\* processRepository does with its result: a git command failed, or the
\* repository has no default branch (both are returned), or the working copy
\* is there and the processor is called with isEmpty = false.
Acquire(w, gitOk) ==
    IF ~gitOk
      THEN /\ ReturnFromProcess(w, FailErr(wRepo[w]), "giterr")
           /\ invoked' = invoked
      ELSE IF Repo(wRepo[w]).DefaultBranchName = ""
             THEN /\ ReturnFromProcess(w, errNoDefaultBranch, "nobranch")
                  /\ invoked' = invoked
             ELSE /\ wPc' = [wPc EXCEPT ![w] = "proc"]
                  /\ invoked' = [invoked EXCEPT ![wRepo[w]] = @ + 1]
                  /\ UNCHANGED << err, outcome >>

\* WorkerSelect with a select that does not look at ctx.Done().
WorkerSelect_IgnoreCtx(w) ==
    /\ ~panicked
    /\ wPc[w] = "select"
    /\ IF Repo(wRepo[w]).Size = 0
         THEN /\ wPc' = [wPc EXCEPT ![w] = "procEmpty"]
              /\ invoked' = [invoked EXCEPT ![wRepo[w]] = @ + 1]
              /\ UNCHANGED << err, outcome >>
         ELSE \E gitOk \in BOOLEAN : Acquire(w, gitOk)
    /\ UNCHANGED << inputVars, ctxDone, repoC, repoCClosed, errC, errCClosed,
                    doneCClosed, wg, counterVars, producerVars, wRepo, runVars,
                    panicked,
                    cancelInFlight, enqueued, wcVars, fnVars >>

\* select { case <-ctx.Done(): continue; default: processRepository(...) }
\* processRepository starts: with Size == 0 it calls the processor with
\* isEmpty = true, otherwise it goes to cloneRepositoryOrGetFromCache.
WorkerSelect(w) ==
    /\ ~panicked
    /\ wPc[w] = "select"
    /\ IF ctxDone
         THEN /\ wPc' = [wPc EXCEPT ![w] = "recv"]
              /\ UNCHANGED << err, invoked, outcome >>
         ELSE IF Repo(wRepo[w]).Size = 0
                THEN /\ wPc' = [wPc EXCEPT ![w] = "procEmpty"]
                     /\ invoked' = [invoked EXCEPT ![wRepo[w]] = @ + 1]
                     /\ UNCHANGED << err, outcome >>
                ELSE \E gitOk \in BOOLEAN : Acquire(w, gitOk)
    /\ UNCHANGED << inputVars, ctxDone, repoC, repoCClosed, errC, errCClosed,
                    doneCClosed, wg, counterVars, producerVars, wRepo, runVars,
                    panicked,
                    cancelInFlight, enqueued, wcVars, fnVars >>

\* The processor called with isEmpty = true returns.  On an error
\* processRepository returns it; on success it goes on (there is no return)
\* to cloneRepositoryOrGetFromCache.
WorkerProcEmptyEnd(w) ==
    /\ ~panicked
    /\ wPc[w] = "procEmpty"
    /\ \E ok \in BOOLEAN :
         IF ok
           THEN \E gitOk \in BOOLEAN : Acquire(w, gitOk)
           ELSE /\ ReturnFromProcess(w, FailErr(wRepo[w]), "procerr")
                /\ invoked' = invoked
    /\ UNCHANGED << inputVars, ctxDone, repoC, repoCClosed, errC, errCClosed,
                    doneCClosed, wg, counterVars, producerVars, wRepo, runVars,
                    panicked,
                    cancelInFlight, enqueued, wcVars, fnVars >>

\* The processor called with isEmpty = false returns; processRepository
\* returns nil or the wrapped error.
WorkerProcEnd(w) ==
    /\ ~panicked
    /\ wPc[w] = "proc"
    /\ \E ok \in BOOLEAN :
         IF ok
           THEN ReturnFromProcess(w, NilErr, "ok")
           ELSE ReturnFromProcess(w, FailErr(wRepo[w]), "procerr")
    /\ UNCHANGED << inputVars, ctxDone, repoC, repoCClosed, errC, errCClosed,
                    doneCClosed, wg, counterVars, producerVars, wRepo, runVars,
                    panicked, invoked,
                    cancelInFlight, enqueued, wcVars, fnVars >>

\* if err != nil: a read of the shared err.
WorkerCheck(w) ==
    /\ ~panicked
    /\ wPc[w] = "check"
    /\ wPc' = [wPc EXCEPT ![w] = IF err = NilErr THEN "recv" ELSE "is"]
    /\ UNCHANGED << inputVars, ctxDone, repoC, repoCClosed, errC, errCClosed,
                    doneCClosed, wg, counterVars, err, producerVars, wRepo, runVars,
                    panicked, histVars,
                    cancelInFlight, enqueued, wcVars, fnVars >>

\* if errors.Is(err, errNoDefaultBranch) { WARN; continue }: a second read.
WorkerIs(w) ==
    /\ ~panicked
    /\ wPc[w] = "is"
    /\ wPc' = [wPc EXCEPT ![w] = IF err = errNoDefaultBranch THEN "recv" ELSE "send"]
    /\ UNCHANGED << inputVars, ctxDone, repoC, repoCClosed, errC, errCClosed,
                    doneCClosed, wg, counterVars, err, producerVars, wRepo, runVars,
                    panicked, histVars,
                    cancelInFlight, enqueued, wcVars, fnVars >>

\* A worker that goes on with the next repository after sending its error.
WorkerSend_Continue(w) ==
    /\ ~panicked
    /\ wPc[w] = "send"
    /\ IF errCClosed
         THEN /\ panicked' = TRUE
              /\ UNCHANGED << errC, wPc, wg >>
         ELSE /\ Len(errC) < nOfWorkers
              /\ errC' = Append(errC, WrapErr(wRepo[w], err))
              /\ wPc' = [wPc EXCEPT ![w] = "recv"]
              /\ wg' = wg
              /\ panicked' = FALSE
    /\ UNCHANGED << inputVars, ctxDone, repoC, repoCClosed, errCClosed, doneCClosed,
                    counterVars, err, producerVars, wRepo, runVars, histVars,
                    cancelInFlight, enqueued, wcVars, fnVars >>

\* errC <- fmt.Errorf("processing %q: %w", repo.Name, err); return
\* A third read of err; a send on a closed channel panics; the return runs
\* the deferred wg.Done().
WorkerSend(w) ==
    /\ ~panicked
    /\ wPc[w] = "send"
    /\ IF errCClosed
         THEN /\ panicked' = TRUE
              /\ UNCHANGED << errC, wPc, wg >>
         ELSE /\ Len(errC) < nOfWorkers
              /\ errC' = Append(errC, WrapErr(wRepo[w], err))
              /\ wPc' = [wPc EXCEPT ![w] = "exit"]
              /\ wg' = wg - 1
              /\ panicked' = FALSE
    /\ UNCHANGED << inputVars, ctxDone, repoC, repoCClosed, errCClosed, doneCClosed,
                    counterVars, err, producerVars, wRepo, runVars, histVars,
                    cancelInFlight, enqueued, wcVars, fnVars >>

\* ----------------------------------------------------------- the run loop
Return(res, e) ==
    /\ cPc' = "returned"
    /\ retResult' = res
    /\ retErr' = e

\* case err, ok := <-errC: if ok { close(doneC); wg.Wait(); return Result{}, err }
RunSelectErr ==
    /\ ~panicked
    /\ cPc = "select"
    /\ errC # << >>
    /\ cErr' = Head(errC)
    /\ errC' = Tail(errC)
    /\ IF doneCClosed
         THEN /\ panicked' = TRUE
              /\ UNCHANGED << doneCClosed, cPc >>
         ELSE /\ doneCClosed' = TRUE
              /\ cPc' = "errWait"
              /\ panicked' = FALSE
    /\ UNCHANGED << inputVars, ctxDone, repoC, repoCClosed, errCClosed, wg,
                    counterVars, err, producerVars, workerVars, retResult, retErr,
                    histVars,
                    cancelInFlight, enqueued, wcVars, fnVars >>

\* RunErrWait without the wg.Wait().
RunErrWait_NoWait ==
    /\ ~panicked
    /\ cPc = "errWait"
    /\ Return(ZeroResult, cErr)
    /\ UNCHANGED << inputVars, ctxDone, repoC, repoCClosed, errC, errCClosed,
                    doneCClosed, wg, counterVars, err, producerVars, workerVars, cErr,
                    panicked, histVars,
                    cancelInFlight, enqueued, wcVars, fnVars >>

\* wg.Wait() of the error case, then return Result{}, err.
RunErrWait ==
    /\ ~panicked
    /\ cPc = "errWait"
    /\ wg = 0
    /\ Return(ZeroResult, cErr)
    /\ UNCHANGED << inputVars, ctxDone, repoC, repoCClosed, errC, errCClosed,
                    doneCClosed, wg, counterVars, err, producerVars, workerVars, cErr,
                    panicked, histVars,
                    cancelInFlight, enqueued, wcVars, fnVars >>

\* case <-ctx.Done(): close(doneC); close(errC); return Result{}, ctx.Err()
RunSelectCtx ==
    /\ ~panicked
    /\ cPc = "select"
    /\ ctxDone
    /\ IF doneCClosed
         THEN /\ panicked' = TRUE
              /\ UNCHANGED << doneCClosed, errCClosed, cPc, retResult, retErr >>
         ELSE /\ doneCClosed' = TRUE
              /\ errCClosed' = TRUE
              /\ Return(ZeroResult, ctxErr)
              /\ panicked' = FALSE
    /\ UNCHANGED << inputVars, ctxDone, repoC, repoCClosed, errC, wg, counterVars,
                    err, producerVars, workerVars, cErr, histVars,
                    cancelInFlight, enqueued, wcVars, fnVars >>

\* case <-doneC: the producer has closed doneC.
RunSelectDone ==
    /\ ~panicked
    /\ cPc = "select"
    /\ doneCClosed
    /\ cPc' = "doneWait"
    /\ UNCHANGED << inputVars, ctxDone, repoC, repoCClosed, errC, errCClosed,
                    doneCClosed, wg, counterVars, err, producerVars, workerVars, cErr,
                    retResult, retErr, panicked, histVars,
                    cancelInFlight, enqueued, wcVars, fnVars >>

\* RunDoneWait without the wg.Wait().
RunDoneWait_NoWait ==
    /\ ~panicked
    /\ cPc = "doneWait"
    /\ IF errC # << >>
         THEN /\ Return(ZeroResult, Head(errC))
              /\ errC' = Tail(errC)
         ELSE /\ Return([Found |-> mFound, Inspected |-> mInspected,
                         Processed |-> mProcessed], NilErr)
              /\ errC' = errC
    /\ errCClosed' = TRUE
    /\ UNCHANGED << inputVars, ctxDone, repoC, repoCClosed, doneCClosed, wg,
                    counterVars, err, producerVars, workerVars, cErr, panicked,
                    histVars, cancelInFlight, enqueued, wcVars, fnVars >>

\* wg.Wait(); defer close(errC);
\* select { case err := <-errC: return Result{}, err
\*          default: return Result{mFound, mInspected, mProcessed}, nil }
RunDoneWait ==
    /\ ~panicked
    /\ cPc = "doneWait"
    /\ wg = 0
    /\ IF errC # << >>
         THEN /\ Return(ZeroResult, Head(errC))
              /\ errC' = Tail(errC)
         ELSE /\ Return([Found |-> mFound, Inspected |-> mInspected,
                         Processed |-> mProcessed], NilErr)
              /\ errC' = errC
    /\ errCClosed' = TRUE
    /\ UNCHANGED << inputVars, ctxDone, repoC, repoCClosed, doneCClosed, wg,
                    counterVars, err, producerVars, workerVars, cErr, panicked,
                    histVars,
                    cancelInFlight, enqueued, wcVars, fnVars >>

\* ------------------------------------------------------- the specification
Producer ==
    \/ ProducerNextPage
    \/ ProducerInspect
    \/ ProducerSend
    \/ ProducerFinish

Worker(w) ==
    \/ WorkerRecv(w)
    \/ WorkerSelect(w)
    \/ WorkerProcEmptyEnd(w)
    \/ WorkerProcEnd(w)
    \/ WorkerCheck(w)
    \/ WorkerIs(w)
    \/ WorkerSend(w)

Run ==
    \/ RunSelectErr
    \/ RunErrWait
    \/ RunSelectCtx
    \/ RunSelectDone
    \/ RunDoneWait

Next ==
    \/ Cancel
    \/ Producer
    \/ \E w \in Workers : Worker(w)
    \/ Run

Spec == Init /\ [][Next]_vars

\* The steps of a worker other than the return of a processor invocation.
WorkerOutsideProcessor(w) ==
    \/ WorkerRecv(w)
    \/ WorkerSelect(w)
    \/ WorkerCheck(w)
    \/ WorkerIs(w)
    \/ WorkerSend(w)

\* Fairness: every goroutine that can take a step eventually takes one, and
\* every processor invocation returns.  The caller need not cancel.
FairSpec ==
    /\ Spec
    /\ WF_vars(Producer)
    /\ \A w \in 1..MaxWorkers : WF_vars(w \in Workers /\ Worker(w))
    /\ WF_vars(Run)

\* Fairness when a processor invocation may never return: every goroutine
\* that can take a step outside the processor eventually takes one.
FairSpecProcessorMayBlock ==
    /\ Spec
    /\ WF_vars(Producer)
    /\ \A w \in 1..MaxWorkers : WF_vars(w \in Workers /\ WorkerOutsideProcessor(w))
    /\ WF_vars(Run)

\* ------------------------------------------------ a listing of many records
\* A listing of more records than one worker and the buffer of repoC take:
\* MaxRepos + 1 records on at most MaxPages pages, none of them empty, and
\* opts.NumberOfWorkers = 1.
LongPageInputs ==
    { ps \in SeqsUpTo(SeqsUpTo(RepoKinds, MaxRepos + 1), MaxPages) :
        /\ SumLen(ps) = MaxRepos + 1
        /\ \A i \in 1..Len(ps) : ps[i] # << >> }

LongListingInit ==
    /\ repoPages \in LongPageInputs
    /\ searchOpts = [Language |-> "Go"]
    /\ nOfWorkers = NumberOfWorkersOf(1)
    /\ ctxDone = FALSE
    /\ repoC = << >> /\ repoCClosed = FALSE
    /\ errC = << >> /\ errCClosed = FALSE
    /\ doneCClosed = FALSE
    /\ wg = nOfWorkers
    /\ mFound = SumLen(repoPages)
    /\ mInspected = 0 /\ mProcessed = 0
    /\ err = NilErr
    /\ pPc = "inspect" /\ pPage = 1 /\ pIdx = 1
    /\ wPc = [w \in Workers |-> "recv"]
    /\ wRepo = [w \in Workers |-> 0]
    /\ cPc = "select" /\ cErr = NilErr
    /\ retResult = ZeroResult /\ retErr = NilErr
    /\ panicked = FALSE
    /\ invoked = [k \in Names |-> 0]
    /\ outcome = [k \in Names |-> "none"]
    /\ cancelInFlight = FALSE
    /\ enqueued = << >>
    /\ NoCalls
    /\ NoFn

\* The pipeline on such a listing, under the fairness of FairSpec.
FairSpecLongListing ==
    /\ LongListingInit /\ [][Next]_vars
    /\ WF_vars(Producer)
    /\ \A w \in 1..MaxWorkers : WF_vars(w \in Workers /\ Worker(w))
    /\ WF_vars(Run)

\* ------------------------------------------ processRepository and the cache
\* RunForOrganization is not running.
NoPipeline ==
    /\ repoPages = << >>
    /\ searchOpts = [Language |-> "Go"]
    /\ nOfWorkers = 1
    /\ ctxDone = FALSE
    /\ repoC = << >> /\ repoCClosed = FALSE
    /\ errC = << >> /\ errCClosed = FALSE
    /\ doneCClosed = FALSE
    /\ wg = 1
    /\ mFound = 0 /\ mInspected = 0 /\ mProcessed = 0
    /\ err = NilErr
    /\ pPc = "inspect" /\ pPage = 1 /\ pIdx = 1
    /\ wPc = << "recv" >>
    /\ wRepo = << 0 >>
    /\ cPc = "select" /\ cErr = NilErr
    /\ retResult = ZeroResult /\ retErr = NilErr
    /\ panicked = FALSE
    /\ invoked = << >>
    /\ outcome = << >>
    /\ cancelInFlight = FALSE
    /\ enqueued = << >>

\* Every call has its input and has not started; reposDir is empty, as
\* init() creates it.
WcInit ==
    /\ repoPages = << >>
    /\ searchOpts = [Language |-> "Go"]
    /\ nOfWorkers = 1
    /\ ctxDone = FALSE
    /\ repoC = << >> /\ repoCClosed = FALSE
    /\ errC = << >> /\ errCClosed = FALSE
    /\ doneCClosed = FALSE
    /\ wg = 1
    /\ mFound = 0 /\ mInspected = 0 /\ mProcessed = 0
    /\ err = NilErr
    /\ pPc = "inspect" /\ pPage = 1 /\ pIdx = 1
    /\ wPc = << "recv" >>
    /\ wRepo = << 0 >>
    /\ cPc = "select" /\ cErr = NilErr
    /\ retResult = ZeroResult /\ retErr = NilErr
    /\ panicked = FALSE
    /\ invoked = << >>
    /\ outcome = << >>
    /\ cancelInFlight = FALSE
    /\ enqueued = << >>
    /\ NoFn
    /\ now = 0
    /\ reposDir = {}
    /\ callRepo \in CallInputsOf
    /\ pcCall = [c \in Calls |-> "start"]
    /\ cacheKey = [c \in Calls |-> ""]
    /\ shouldReturnDirectly = [c \in Calls |-> FALSE]
    /\ repoDir = [c \in Calls |-> NoPath]
    /\ callErr = [c \in Calls |-> "none"]
    /\ nOrgReturns = 0
    /\ invocations = [c \in Calls |-> << >>]
    /\ acquired = [c \in Calls |-> FALSE]
    /\ materialized = [c \in Calls |-> FALSE]
    /\ cached = {}
    /\ overlapped = FALSE

callVars == << pcCall, cacheKey, shouldReturnDirectly, repoDir, callErr >>
callHist == << invocations, acquired, materialized, cached, overlapped >>

\* The calls that are inside cloneRepositoryOrGetFromCache.
Acquiring == { c \in Calls : pcCall[c] \in {"stat", "mkdir", "clone", "ready", "cp"} }

\* processRepository returns e.
ReturnErr(c, e) ==
    /\ callErr' = [callErr EXCEPT ![c] = e]
    /\ pcCall' = [pcCall EXCEPT ![c] = "done"]

\* processor(processCtx, repo.Name, isEmpty, exec.NewExecer(dir, ...))
Invoke(c, isEmpty, dir) ==
    invocations' = [invocations EXCEPT ![c] = Append(@, << isEmpty, dir >>)]

\* The clock advances (for as long as some call has yet to read it).
Tick ==
    /\ now < MaxTime
    /\ \E c \in Calls : pcCall[c] \in {"start", "procEmpty", "key"}
    /\ now' = now + 1
    /\ UNCHANGED << pipelineVars, fnVars, reposDir, callRepo, callVars, nOrgReturns, callHist >>

\* processRepository starts: if repo.Size == 0 it calls the processor with
\* isEmpty = true and an Execer without directory.
Begin(c) ==
    /\ pcCall[c] = "start"
    /\ IF callRepo[c].Size = 0
         THEN /\ pcCall' = [pcCall EXCEPT ![c] = "procEmpty"]
              /\ Invoke(c, TRUE, NoPath)
         ELSE /\ pcCall' = [pcCall EXCEPT ![c] = "key"]
              /\ UNCHANGED invocations
    /\ UNCHANGED << pipelineVars, fnVars, now, reposDir, callRepo, cacheKey,
                    shouldReturnDirectly, repoDir, callErr, nOrgReturns, acquired,
                    materialized, cached, overlapped >>

\* The processor called with isEmpty = true returns: its error is returned,
\* wrapped; after nil the function goes on to cloneRepositoryOrGetFromCache.
EmptyReturn(c) ==
    /\ pcCall[c] = "procEmpty"
    /\ \E ok \in BOOLEAN :
         IF ok
           THEN /\ pcCall' = [pcCall EXCEPT ![c] = "key"]
                /\ UNCHANGED callErr
           ELSE ReturnErr(c, "processor")
    /\ UNCHANGED << pipelineVars, fnVars, now, reposDir, callRepo, cacheKey,
                    shouldReturnDirectly, repoDir, nOrgReturns, callHist >>

\* cloneRepositoryOrGetFromCache starts: cacheKey = opts.CloneCacheKey(repo),
\* or, when that is empty, shouldReturnDirectly and the time stamp.
ComputeKey(c) ==
    /\ pcCall[c] = "key"
    /\ acquired' = [acquired EXCEPT ![c] = TRUE]
    /\ IF callRepo[c].Key = ""
         THEN /\ shouldReturnDirectly' = [shouldReturnDirectly EXCEPT ![c] = TRUE]
              /\ cacheKey' = [cacheKey EXCEPT ![c] = FormatStamp(now)]
         ELSE /\ shouldReturnDirectly' = [shouldReturnDirectly EXCEPT ![c] = FALSE]
              /\ cacheKey' = [cacheKey EXCEPT ![c] = callRepo[c].Key]
    /\ pcCall' = [pcCall EXCEPT ![c] = "stat"]
    /\ overlapped' = (overlapped \/ Acquiring \ {c} # {})
    /\ UNCHANGED << pipelineVars, fnVars, now, reposDir, callRepo, repoDir, callErr,
                    nOrgReturns, invocations, materialized, cached >>

\* os.Stat(cloneDir): the directory exists and is used as it is, or it does
\* not exist.
Stat(c) ==
    /\ pcCall[c] = "stat"
    /\ pcCall' = [pcCall EXCEPT ![c] =
                    IF CloneDir(c) \in reposDir THEN "ready" ELSE "mkdir"]
    /\ UNCHANGED << pipelineVars, fnVars, now, reposDir, callRepo, cacheKey,
                    shouldReturnDirectly, repoDir, callErr, nOrgReturns, callHist >>

\* os.MkdirAll(cloneDir, os.ModePerm)
Mkdir(c) ==
    /\ pcCall[c] = "mkdir"
    /\ reposDir' = reposDir \cup {CloneDir(c)}
    /\ pcCall' = [pcCall EXCEPT ![c] = "clone"]
    /\ UNCHANGED << pipelineVars, fnVars, now, callRepo, cacheKey, shouldReturnDirectly,
                    repoDir, callErr, nOrgReturns, callHist >>

\* Clone that leaves cloneDir in place when a git command fails.
Clone_KeepOnError(c) ==
    /\ pcCall[c] = "clone"
    /\ materialized' = [materialized EXCEPT ![c] = TRUE]
    /\ \E gitOk \in BOOLEAN :
         IF ~gitOk \/ CloneDir(c) \notin reposDir
           THEN /\ reposDir' = reposDir
                /\ ReturnErr(c, "git")
                /\ UNCHANGED cached
           ELSE IF callRepo[c].DefaultBranchName = ""
                  THEN /\ reposDir' = reposDir \ {CloneDir(c)}
                       /\ ReturnErr(c, "nobranch")
                       /\ UNCHANGED cached
                  ELSE /\ pcCall' = [pcCall EXCEPT ![c] = "ready"]
                       /\ cached' = IF shouldReturnDirectly[c]
                                      THEN cached
                                      ELSE cached \cup {CloneDir(c)}
                       /\ UNCHANGED << reposDir, callErr >>
    /\ UNCHANGED << pipelineVars, fnVars, now, callRepo, cacheKey, shouldReturnDirectly,
                    repoDir, nOrgReturns, invocations, acquired, overlapped >>

\* cloneRepository(ctx, repo, cloneDir, opts): git init, remote add, then
\* errNoDefaultBranch or fetch and checkout.  The git commands run in
\* cloneDir and fail without it.  On an error: os.RemoveAll(cloneDir).
Clone(c) ==
    /\ pcCall[c] = "clone"
    /\ materialized' = [materialized EXCEPT ![c] = TRUE]
    /\ \E gitOk \in BOOLEAN :
         IF ~gitOk \/ CloneDir(c) \notin reposDir
           THEN /\ reposDir' = reposDir \ {CloneDir(c)}
                /\ ReturnErr(c, "git")
                /\ UNCHANGED cached
           ELSE IF callRepo[c].DefaultBranchName = ""
                  THEN /\ reposDir' = reposDir \ {CloneDir(c)}
                       /\ ReturnErr(c, "nobranch")
                       /\ UNCHANGED cached
                  ELSE /\ pcCall' = [pcCall EXCEPT ![c] = "ready"]
                       /\ cached' = IF shouldReturnDirectly[c]
                                      THEN cached
                                      ELSE cached \cup {CloneDir(c)}
                       /\ UNCHANGED << reposDir, callErr >>
    /\ UNCHANGED << pipelineVars, fnVars, now, callRepo, cacheKey, shouldReturnDirectly,
                    repoDir, nOrgReturns, invocations, acquired, overlapped >>

\* Ready that hands out the cache entry itself.
Ready_ReturnEntry(c) ==
    /\ pcCall[c] = "ready"
    /\ repoDir' = [repoDir EXCEPT ![c] = CloneDir(c)]
    /\ Invoke(c, FALSE, CloneDir(c))
    /\ pcCall' = [pcCall EXCEPT ![c] = "proc"]
    /\ UNCHANGED << reposDir, callErr >>
    /\ UNCHANGED << pipelineVars, fnVars, now, callRepo, cacheKey, shouldReturnDirectly,
                    nOrgReturns, acquired, materialized, cached, overlapped >>

\* if shouldReturnDirectly { return cloneDir, nil }: processRepository calls
\* the processor on cloneDir.  Otherwise repoDir is computed and
\* `rm -rf repoDir` runs.
Ready(c) ==
    /\ pcCall[c] = "ready"
    /\ IF shouldReturnDirectly[c]
         THEN /\ repoDir' = [repoDir EXCEPT ![c] = CloneDir(c)]
              /\ Invoke(c, FALSE, CloneDir(c))
              /\ pcCall' = [pcCall EXCEPT ![c] = "proc"]
              /\ UNCHANGED << reposDir, callErr >>
         ELSE /\ repoDir' = [repoDir EXCEPT ![c] = DupDir(c)]
              /\ UNCHANGED invocations
              /\ \E rmOk \in BOOLEAN :
                   IF rmOk
                     THEN /\ reposDir' = reposDir \ {DupDir(c)}
                          /\ pcCall' = [pcCall EXCEPT ![c] = "cp"]
                          /\ UNCHANGED callErr
                     ELSE /\ ReturnErr(c, "rm")
                          /\ UNCHANGED reposDir
    /\ UNCHANGED << pipelineVars, fnVars, now, callRepo, cacheKey, shouldReturnDirectly,
                    nOrgReturns, acquired, materialized, cached, overlapped >>

\* `cp -r cloneDir repoDir`: repoDir is returned and processRepository calls
\* the processor on it; on an error os.RemoveAll(repoDir).
Cp(c) ==
    /\ pcCall[c] = "cp"
    /\ \E cpOk \in BOOLEAN :
         IF cpOk /\ CloneDir(c) \in reposDir
           THEN /\ reposDir' = reposDir \cup {repoDir[c]}
                /\ Invoke(c, FALSE, repoDir[c])
                /\ pcCall' = [pcCall EXCEPT ![c] = "proc"]
                /\ UNCHANGED callErr
           ELSE /\ reposDir' = reposDir \ {repoDir[c]}
                /\ ReturnErr(c, "cp")
                /\ UNCHANGED invocations
    /\ UNCHANGED << pipelineVars, fnVars, now, callRepo, cacheKey, shouldReturnDirectly,
                    repoDir, nOrgReturns, acquired, materialized, cached, overlapped >>

\* ProcReturn that keeps the directory when the processor fails.
ProcReturn_KeepOnError(c) ==
    /\ pcCall[c] = "proc"
    /\ \E ok \in BOOLEAN :
         IF ok
           THEN /\ ReturnErr(c, "nil")
                /\ reposDir' = reposDir \ {repoDir[c]}
           ELSE /\ ReturnErr(c, "processor")
                /\ UNCHANGED reposDir
    /\ UNCHANGED << pipelineVars, fnVars, now, callRepo, cacheKey, shouldReturnDirectly,
                    repoDir, nOrgReturns, callHist >>

\* The processor called with isEmpty = false returns; processRepository
\* returns nil or the wrapped error, and the deferred os.RemoveAll(repoDir)
\* runs.
ProcReturn(c) ==
    /\ pcCall[c] = "proc"
    /\ \E ok \in BOOLEAN : ReturnErr(c, IF ok THEN "nil" ELSE "processor")
    /\ reposDir' = reposDir \ {repoDir[c]}
    /\ UNCHANGED << pipelineVars, fnVars, now, callRepo, cacheKey, shouldReturnDirectly,
                    repoDir, nOrgReturns, callHist >>

\* A RunForOrganization returns: its deferred os.RemoveAll(reposDir) runs.
OrgReturn ==
    /\ nOrgReturns < MaxOrgReturns
    /\ nOrgReturns' = nOrgReturns + 1
    /\ reposDir' = {}
    /\ UNCHANGED << pipelineVars, fnVars, now, callRepo, callVars, callHist >>

Call(c) ==
    \/ Begin(c)
    \/ EmptyReturn(c)
    \/ ComputeKey(c)
    \/ Stat(c)
    \/ Mkdir(c)
    \/ Clone(c)
    \/ Ready(c)
    \/ Cp(c)
    \/ ProcReturn(c)

WcNext ==
    \/ Tick
    \/ OrgReturn
    \/ \E c \in Calls : Call(c)

WcSpec == WcInit /\ [][WcNext]_vars

\* ------------------------------------------- SearchOptions.MakeFilterIn
\* Visibility, ArchiveCondition, Source and SizeCondition (iota constants).
VisibilityNone == 0
VisibilityPublic == 1
VisibilityPrivate == 2
VisibilityInternal == 3

IncludeArchived == 0
OnlyArchived == 1
OmitArchived == 2

AllSources == 0
OnlyForks == 1
OnlyNonForks == 2

All == 0
NotEmpty == 1
OnlyEmpty == 2

\* func (v Visibility) String() string
VisibilityString(v) ==
    CASE v = VisibilityPublic -> "public"
      [] v = VisibilityPrivate -> "private"
      [] v = VisibilityInternal -> "internal"
      [] OTHER -> ""

\* The options MakeFilterIn reads.  FilterIn is nil or a pure predicate of
\* the caller ("small" accepts the repositories of size below 2).
FilterOptions ==
    [ FilterIn : {"nil", "small"},
      Language : {"", "Go"},
      ArchiveCondition : {IncludeArchived, OnlyArchived, OmitArchived},
      Visibility : {VisibilityNone, VisibilityPublic, VisibilityPrivate,
                    VisibilityInternal},
      Source : {AllSources, OnlyForks, OnlyNonForks},
      SizeCondition : {All, NotEmpty, OnlyEmpty} ]

\* The zero value of SearchOptions.
ZeroOptions ==
    [ FilterIn |-> "nil", Language |-> "", ArchiveCondition |-> IncludeArchived,
      Visibility |-> VisibilityNone, Source |-> AllSources, SizeCondition |-> All ]

\* The fields of Repository the filters read.
FilterRepos ==
    [ Language : {"Go", "Python"}, Archived : BOOLEAN, Fork : BOOLEAN,
      Visibility : {"public", "private", "internal"}, Size : {0, 1, 2} ]

\* so.FilterIn(r), for a FilterIn that is not nil.
CallFilterIn(f, r) == r.Size < 2

\* MakeFilterIn without the switch on so.SizeCondition.
MakeFilterIn_NoSizeCondition(so) ==
    LET f1 == IF so.FilterIn # "nil" THEN << "FilterIn" >> ELSE << >>
        f2 == IF so.Language # "" THEN Append(f1, "Language") ELSE f1
        f3 == CASE so.ArchiveCondition = OnlyArchived -> Append(f2, "OnlyArchived")
                [] so.ArchiveCondition = OmitArchived -> Append(f2, "OmitArchived")
                [] OTHER -> f2
        f4 == CASE so.Source = OnlyForks -> Append(f3, "OnlyForks")
                [] so.Source = OnlyNonForks -> Append(f3, "OnlyNonForks")
                [] OTHER -> f3
        f5 == IF so.Visibility # VisibilityNone THEN Append(f4, "Visibility") ELSE f4
    IN  [filters |-> f5, so |-> so]

\* MakeFilterIn: the slice filters it builds, in the order of the appends,
\* and the receiver so that the closures capture (a copy: the receiver is a
\* value).  The function returned is this pair; FilterLoop is its body.
MakeFilterIn(so) ==
    LET f1 == IF so.FilterIn # "nil" THEN << "FilterIn" >> ELSE << >>
        f2 == IF so.Language # "" THEN Append(f1, "Language") ELSE f1
        f3 == CASE so.ArchiveCondition = OnlyArchived -> Append(f2, "OnlyArchived")
                [] so.ArchiveCondition = OmitArchived -> Append(f2, "OmitArchived")
                [] OTHER -> f2
        f4 == CASE so.Source = OnlyForks -> Append(f3, "OnlyForks")
                [] so.Source = OnlyNonForks -> Append(f3, "OnlyNonForks")
                [] OTHER -> f3
        f5 == IF so.Visibility # VisibilityNone THEN Append(f4, "Visibility") ELSE f4
        f6 == CASE so.SizeCondition = NotEmpty -> Append(f5, "NotEmpty")
                [] so.SizeCondition = OnlyEmpty -> Append(f5, "OnlyEmpty")
                [] OTHER -> f5
    IN  [filters |-> f6, so |-> so]

\* The body of each closure MakeFilterIn appends.
RunFilter(filter, so, r) ==
    CASE filter = "FilterIn" -> CallFilterIn(so.FilterIn, r)
      [] filter = "Language" -> r.Language = so.Language
      [] filter = "OnlyArchived" -> r.Archived
      [] filter = "OmitArchived" -> ~r.Archived
      [] filter = "OnlyForks" -> r.Fork
      [] filter = "OnlyNonForks" -> ~r.Fork
      [] filter = "Visibility" -> r.Visibility = VisibilityString(so.Visibility)
      [] filter = "NotEmpty" -> r.Size > 0
      [] filter = "OnlyEmpty" -> r.Size = 0

\* for _, filter := range filters { if !filter(r) { return false } }; return true
RECURSIVE FilterLoop(_, _, _)
FilterLoop(filters, so, r) ==
    IF filters = << >> THEN TRUE
    ELSE IF ~RunFilter(Head(filters), so, r) THEN FALSE
    ELSE FilterLoop(Tail(filters), so, r)

\* A caller builds predicates from its options and applies them to r.
FilterInit ==
    /\ NoPipeline
    /\ NoCalls
    /\ \E so \in FilterOptions, r \in FilterRepos :
          fnCall = [op |-> "MakeFilterIn", so |-> so, r |-> r]
    /\ fnRet = [pc |-> "filter", closures |-> << >>, out |-> << >>]

\* filterIn := so.MakeFilterIn()
MakeFilterInCall ==
    /\ fnRet.pc = "filter"
    /\ Len(fnRet.closures) < MaxBuilds
    /\ fnRet' = [fnRet EXCEPT !.closures = Append(@, MakeFilterIn(fnCall.so)),
                              !.out = Append(@, << >>)]
    /\ UNCHANGED << pipelineVars, wcVars, fnCall >>

\* A predicate whose call removes the first filter of its slice.
FilterApply_Consuming(i) ==
    /\ fnRet.pc = "filter"
    /\ Len(fnRet.out[i]) < MaxApplications
    /\ LET f == fnRet.closures[i] IN
         fnRet' = [fnRet EXCEPT
            !.out[i] = Append(@, FilterLoop(f.filters, f.so, fnCall.r)),
            !.closures[i].filters = IF @ = << >> THEN @ ELSE Tail(@)]
    /\ UNCHANGED << pipelineVars, wcVars, fnCall >>

\* filterIn(r): the loop reads the slice and the options, and writes nothing.
FilterApply(i) ==
    /\ fnRet.pc = "filter"
    /\ Len(fnRet.out[i]) < MaxApplications
    /\ LET f == fnRet.closures[i] IN
         fnRet' = [fnRet EXCEPT
            !.out[i] = Append(@, FilterLoop(f.filters, f.so, fnCall.r))]
    /\ UNCHANGED << pipelineVars, wcVars, fnCall >>

FilterNext ==
    \/ MakeFilterInCall
    \/ \E i \in 1..MaxBuilds : i <= Len(fnRet.closures) /\ FilterApply(i)

FilterSpec == FilterInit /\ [][FilterNext]_vars

\* ------------------------------------------------------ processRepoPages
\* A line of the listing output is a sequence of JSON tokens: the brackets,
\* the comma, the objects "a" and "b" (two different repositories), and
\* "pad", a run of white space as long as the buffer of the scanner.
Objects == {"a", "b"}

\* bufio.MaxScanTokenSize: the scanner of processRepoPages keeps its default
\* buffer, and a line that does not fit in it ends the scan with ErrTooLong.
MaxScanTokenSize == 65536

\* len(ls.Bytes()) for a line made of these tokens.
RECURSIVE LineLen(_)
LineLen(line) ==
    IF line = << >> THEN 0
    ELSE (CASE Head(line) \in {"[", "]", ","} -> 1
            [] Head(line) = "pad" -> MaxScanTokenSize
            [] OTHER -> 20)
         + LineLen(Tail(line))

\* The lines of the inputs: the empty line, the empty array, an array of one
\* record, arrays of two records in either order, an array with a trailing
\* comma (not JSON), and an array longer than the buffer of the scanner.
LineTexts ==
    { << >>,
      << "[", "]" >>,
      << "[", "a", "]" >>,
      << "[", "a", ",", "b", "]" >>,
      << "[", "b", ",", "a", "]" >>,
      << "[", "a", ",", "]" >>,
      << "[", "a", "pad", "]" >> }

\* json.Unmarshal of an object into a Repository.
DecodeObject(t) == [Name |-> t]

\* The elements of a JSON array after the first one was expected at ts.
RECURSIVE ParseElements(_, _)
ParseElements(ts, page) ==
    IF ts = << >> \/ Head(ts) \notin Objects
      THEN [page |-> << >>, err |-> "unmarshaling"]
      ELSE LET page2 == Append(page, DecodeObject(Head(ts)))
               rest == Tail(ts)
           IN  IF rest = << >> THEN [page |-> page2, err |-> "nil"]
               ELSE IF Head(rest) = "," THEN ParseElements(Tail(rest), page2)
               ELSE [page |-> << >>, err |-> "unmarshaling"]

\* json.Unmarshal(ls.Bytes(), &page) with page = []Repository{}: white space
\* is skipped, the text must be one array of objects, and the records are
\* appended in the order of the array.
Unmarshal(line) ==
    LET ts == SelectSeq(line, LAMBDA t : t # "pad") IN
      IF Len(ts) < 2 \/ ts[1] # "[" \/ ts[Len(ts)] # "]"
        THEN [page |-> << >>, err |-> "unmarshaling"]
        ELSE IF Len(ts) = 2 THEN [page |-> << >>, err |-> "nil"]
        ELSE ParseElements(SubSeq(ts, 2, Len(ts) - 1), << >>)

\* A loop that skips a short line and goes on with the next one.
ScanStep_NoBreak(line, st) ==
    IF st.stop THEN st
    ELSE IF LineLen(line) >= MaxScanTokenSize
      THEN [repoPages |-> << >>, err |-> "scanning", stop |-> TRUE]
    ELSE IF LineLen(line) <= 2 THEN st
    ELSE LET d == Unmarshal(line) IN
      IF d.err # "nil"
        THEN [repoPages |-> << >>, err |-> d.err, stop |-> TRUE]
        ELSE [st EXCEPT !.repoPages = Append(@, d.page)]

\* A loop that returns the pages decoded so far with the error.
ScanStep_KeepPartial(line, st) ==
    IF st.stop THEN st
    ELSE IF LineLen(line) >= MaxScanTokenSize
      THEN [repoPages |-> << >>, err |-> "scanning", stop |-> TRUE]
    ELSE IF LineLen(line) <= 2 THEN [st EXCEPT !.stop = TRUE]
    ELSE LET d == Unmarshal(line) IN
      IF d.err # "nil"
        THEN [st EXCEPT !.err = d.err, !.stop = TRUE]
        ELSE [st EXCEPT !.repoPages = Append(@, d.page)]

\* One turn of for ls.Scan() { ... }: Scan fails on a line that does not fit
\* in the buffer (ls.Err() is then ErrTooLong and nil is returned); a line of
\* at most 2 bytes breaks the loop; a line that does not decode returns nil
\* and the error; otherwise the page is appended.
ScanStep(line, st) ==
    IF st.stop THEN st
    ELSE IF LineLen(line) >= MaxScanTokenSize
      THEN [repoPages |-> << >>, err |-> "scanning", stop |-> TRUE]
    ELSE IF LineLen(line) <= 2 THEN [st EXCEPT !.stop = TRUE]
    ELSE LET d == Unmarshal(line) IN
      IF d.err # "nil"
        THEN [repoPages |-> << >>, err |-> d.err, stop |-> TRUE]
        ELSE [st EXCEPT !.repoPages = Append(@, d.page)]

RECURSIVE ScanLoop(_, _)
ScanLoop(lines, st) ==
    IF lines = << >> THEN st ELSE ScanLoop(Tail(lines), ScanStep(Head(lines), st))

\* processRepoPages(s): what it returns for the lines of s.
processRepoPages(s) ==
    LET st == ScanLoop(s, [repoPages |-> << >>, err |-> "nil", stop |-> FALSE])
    IN  [repoPages |-> st.repoPages, err |-> st.err]

\* The output of the listing command: at most MaxLines lines.
DecodeInit ==
    /\ NoPipeline
    /\ NoCalls
    /\ \E s \in SeqsUpTo(LineTexts, MaxLines) :
          fnCall = [op |-> "processRepoPages", s |-> s]
    /\ fnRet = [pc |-> "call"]

ProcessRepoPagesCall ==
    /\ fnCall.op = "processRepoPages"
    /\ fnRet.pc = "call"
    /\ LET res == processRepoPages(fnCall.s) IN
         fnRet' = [pc |-> "returned", repoPages |-> res.repoPages, err |-> res.err]
    /\ UNCHANGED << pipelineVars, wcVars, fnCall >>

DecodeNext == ProcessRepoPagesCall

DecodeSpec == DecodeInit /\ [][DecodeNext]_vars

\* ------------------------------------------------------------- fillLines
\* A string is a sequence of characters; the characters of the inputs are a
\* letter, the path separator and the newline.
Chars == {"a", "/", "\n"}

Strings == SeqsUpTo(Chars, MaxLineLen)

\* fmt.Fprint(f, l): the text, with nothing after it.
Fprint(l) == l

\* fmt.Fprintln(f, l): the text of l, then a newline.
Fprintln(l) == l \o << "\n" >>

\* for _, l := range lines { fmt.Fprintln(f, l) }: what the file holds.
RECURSIVE WriteLines(_)
WriteLines(lines) ==
    IF lines = << >> THEN << >> ELSE Fprintln(Head(lines)) \o WriteLines(Tail(lines))

\* fillLines is called with at most MaxSubset strings, on a path where
\* os.Create succeeds or not; the file may exist already.
FillInit ==
    /\ NoPipeline
    /\ NoCalls
    /\ \E lines \in SeqsUpTo(Strings, MaxSubset), createFails \in BOOLEAN :
          fnCall = [op |-> "fillLines", lines |-> lines, createFails |-> createFails]
    /\ \E old \in { << >>, << "a", "\n" >> } :
          fnRet = [pc |-> "call", file |-> old, err |-> "nil"]

\* os.Create truncates the file; every line is printed with Fprintln.
FillLinesCall ==
    /\ fnCall.op = "fillLines"
    /\ fnRet.pc = "call"
    /\ IF fnCall.createFails
         THEN fnRet' = [fnRet EXCEPT !.pc = "returned", !.err = "opening file"]
         ELSE fnRet' = [pc |-> "returned", file |-> WriteLines(fnCall.lines),
                        err |-> "nil"]
    /\ UNCHANGED << pipelineVars, wcVars, fnCall >>

FillNext == FillLinesCall

FillSpec == FillInit /\ [][FillNext]_vars

\* ------------------------------------- the set-up of RunForOrganization
AllPages == -1
defaultPerPage == 100
maxPerPage == 1000

\* SearchOptions.PerPage and SearchOptions.Page of the inputs.
PerPageInputs == {-1, 0, 1, maxPerPage, maxPerPage + 1}
PageInputsOfCall == {-2, AllPages, 0, 1, 2}

\* RunForOrganization is called: the paging options, whether the command gh
\* fails, what it prints, and opts.NumberOfWorkers.  Every return runs the
\* deferred os.RemoveAll(reposDir) (removed).
SetupInit ==
    /\ NoPipeline
    /\ NoCalls
    /\ \E pp \in PerPageInputs, pg \in PageInputsOfCall, fails \in BOOLEAN,
          res \in SeqsUpTo(LineTexts, MaxLines), n \in {0, 1} :
          fnCall = [op |-> "RunForOrganization", PerPage |-> pp, Page |-> pg,
                    ghFails |-> fails, res |-> res, NumberOfWorkers |-> n]
    /\ fnRet = [pc |-> "paging", perPage |-> 0, page |-> "", ghCalls |-> 0,
                repoPages |-> << >>, workers |-> 0, processorCalls |-> 0,
                Result |-> ZeroResult, err |-> "nil", removed |-> FALSE]

\* A set-up that takes the defaults for the negative values too.
Paging_NoValidation ==
    /\ fnCall.op = "RunForOrganization"
    /\ fnRet.pc = "paging"
    /\ fnRet' = [fnRet EXCEPT
          !.pc = "list",
          !.perPage = IF fnCall.PerPage > 0 /\ fnCall.PerPage <= maxPerPage
                        THEN fnCall.PerPage ELSE defaultPerPage,
          !.page = IF fnCall.Page = AllPages THEN "--paginate"
                   ELSE IF fnCall.Page > 0 THEN "page" ELSE ""]
    /\ UNCHANGED << pipelineVars, wcVars, fnCall >>

\* The target of the listing command: per_page, then --paginate or page.
\* A negative PerPage, or a Page below zero that is not AllPages, returns
\* Result{} and an error.
Paging ==
    /\ fnCall.op = "RunForOrganization"
    /\ fnRet.pc = "paging"
    /\ LET pp == fnCall.PerPage
           pg == fnCall.Page
       IN  IF ~(pp = 0 \/ pp > maxPerPage) /\ ~(pp > 0)
             THEN fnRet' = [fnRet EXCEPT !.pc = "returned", !.removed = TRUE,
                                         !.err = "invalid negative SearchOptions.PerPage"]
           ELSE IF pg # AllPages /\ ~(pg > 0) /\ pg # 0
             THEN fnRet' = [fnRet EXCEPT !.pc = "returned", !.removed = TRUE,
                                         !.err = "invalid negative SearchOptions.Page"]
           ELSE fnRet' = [fnRet EXCEPT
                  !.pc = "list",
                  !.perPage = IF pp = 0 \/ pp > maxPerPage THEN defaultPerPage ELSE pp,
                  !.page = IF pg = AllPages THEN "--paginate"
                           ELSE IF pg > 0 THEN "page" ELSE ""]
    /\ UNCHANGED << pipelineVars, wcVars, fnCall >>

\* exec.RunX(ctx, "gh", ...): the listing command runs; its failure returns
\* "fetching repositories".
ListRepositories ==
    /\ fnRet.pc = "list"
    /\ IF fnCall.ghFails
         THEN fnRet' = [fnRet EXCEPT !.pc = "returned", !.removed = TRUE, !.ghCalls = @ + 1,
                                     !.err = "fetching repositories"]
         ELSE fnRet' = [fnRet EXCEPT !.pc = "decode", !.ghCalls = @ + 1]
    /\ UNCHANGED << pipelineVars, wcVars, fnCall >>

\* A set-up that starts the workers on the pages decoded before the error.
DecodePages_KeepGoing ==
    /\ fnRet.pc = "decode"
    /\ fnRet' = [fnRet EXCEPT !.pc = "start",
                              !.repoPages = ScanLoop(fnCall.res,
                                  [repoPages |-> << >>, err |-> "nil",
                                   stop |-> FALSE]).repoPages]
    /\ UNCHANGED << pipelineVars, wcVars, fnCall >>

\* repoPages, err := processRepoPages(res): an error returns "processing
\* repositories pages".
DecodePages ==
    /\ fnRet.pc = "decode"
    /\ LET d == processRepoPages(fnCall.res) IN
         IF d.err # "nil"
           THEN fnRet' = [fnRet EXCEPT !.pc = "returned", !.removed = TRUE,
                                       !.err = "processing repositories pages"]
           ELSE fnRet' = [fnRet EXCEPT !.pc = "start", !.repoPages = d.repoPages]
    /\ UNCHANGED << pipelineVars, wcVars, fnCall >>

\* for range nOfWorkers { go func() {...}() }: the workers start.  What they
\* and the producer do from here on is the pipeline of Spec.
StartWorkers ==
    /\ fnRet.pc = "start"
    /\ fnRet' = [fnRet EXCEPT !.pc = "running",
                              !.workers = NumberOfWorkersOf(fnCall.NumberOfWorkers)]
    /\ UNCHANGED << pipelineVars, wcVars, fnCall >>

\* A worker calls processRepository, and with it the processor, for a
\* repository of the pages.
WorkerProcesses ==
    /\ fnRet.pc = "running"
    /\ fnRet.processorCalls < SumLen(fnRet.repoPages)
    /\ fnRet' = [fnRet EXCEPT !.processorCalls = @ + 1]
    /\ UNCHANGED << pipelineVars, wcVars, fnCall >>

SetupNext ==
    \/ Paging
    \/ ListRepositories
    \/ DecodePages
    \/ StartWorkers
    \/ WorkerProcesses

SetupSpec == SetupInit /\ [][SetupNext]_vars

\* ---------------------------------------------------------------- WithEnv
\* The strings given as keys and values, and the executors WithEnv is
\* called on: one without environment and one that has an entry.
EnvWords == {"K", "L", "v"}

ParentExecers ==
    { [dir |-> "/repo", env |-> << >>], [dir |-> "/repo", env |-> << "P=0" >>] }

\* fmt.Sprintf("%s=%s", k, v)
SprintfKV(k, v) == k \o "=" \o v

\* for i := range kvLen % 2 { env = append(env, Sprintf("%s=%s", kv[i], kv[i+1])) }
\* on the slice kv (indexed from 0): n turns, the first one with i = 0.  An
\* index beyond the slice panics.
RECURSIVE EnvLoop(_, _, _, _)
EnvLoop(kv, i, n, env) ==
    IF i >= n THEN [env |-> env, panic |-> FALSE]
    ELSE IF i + 2 > Len(kv) THEN [env |-> env, panic |-> TRUE]
    ELSE EnvLoop(kv, i + 1, n, Append(env, SprintfKV(kv[i + 1], kv[i + 2])))

\* WithEnv(e, kv...): e itself when kv is empty; otherwise kv loses its last
\* element when kvLen is odd, env starts as nil (not as e.env), the loop
\* runs kvLen % 2 times, and the executor returned has e.dir and env.
WithEnv(e, kv) ==
    LET kvLen == Len(kv)
        kv2 == IF kvLen % 2 # 0 THEN SubSeq(kv, 1, kvLen - 1) ELSE kv
        r == EnvLoop(kv2, 0, kvLen % 2, << >>)
    IN  IF kvLen = 0 THEN [dir |-> e.dir, env |-> e.env, panic |-> FALSE]
        ELSE [dir |-> e.dir, env |-> r.env, panic |-> r.panic]

EnvInit ==
    /\ NoPipeline
    /\ NoCalls
    /\ \E e \in ParentExecers, kv \in SeqsUpTo(EnvWords, MaxKv) :
          fnCall = [op |-> "WithEnv", e |-> e, kv |-> kv]
    /\ fnRet = [pc |-> "call"]

WithEnvCall ==
    /\ fnCall.op = "WithEnv"
    /\ fnRet.pc = "call"
    /\ LET r == WithEnv(fnCall.e, fnCall.kv) IN
         fnRet' = [pc |-> IF r.panic THEN "panicked" ELSE "returned",
                   dir |-> r.dir, env |-> r.env]
    /\ UNCHANGED << pipelineVars, wcVars, fnCall >>

EnvNext == WithEnvCall

EnvSpec == EnvInit /\ [][EnvNext]_vars

\* ----------------------------------------------------- CreatePRIfNotExist
\* What `gh pr view --json url,state` gives: Run fails (runErr), or the exit
\* code is not zero (no pull request), or it is zero and the output is the
\* JSON of a pull request, or an output that does not decode.
ViewOutcomes ==
    { [runErr |-> TRUE,  exit |-> 0, json |-> FALSE, url |-> "", state |-> ""],
      [runErr |-> FALSE, exit |-> 1, json |-> FALSE, url |-> "", state |-> ""],
      [runErr |-> FALSE, exit |-> 0, json |-> FALSE, url |-> "", state |-> ""],
      [runErr |-> FALSE, exit |-> 0, json |-> TRUE, url |-> "pull/21", state |-> "OPEN"],
      [runErr |-> FALSE, exit |-> 0, json |-> TRUE, url |-> "pull/21", state |-> "MERGED"],
      [runErr |-> FALSE, exit |-> 0, json |-> TRUE, url |-> "pull/21", state |-> "CLOSED"] }

\* The call: opts.Body is empty or not, os.CreateTemp fails or not, the
\* outcome of the lookup, and whether `gh pr create` and `gh pr edit` fail.
PrInit ==
    /\ NoPipeline
    /\ NoCalls
    /\ \E body, tempFails, createFails, editFails \in BOOLEAN, view \in ViewOutcomes :
          fnCall = [op |-> "CreatePRIfNotExist", body |-> body,
                    tempFails |-> tempFails, view |-> view,
                    createFails |-> createFails, editFails |-> editFails]
    /\ fnRet = [pc |-> "body", prBodyFile |-> "", commands |-> << >>,
                prURL |-> "", isNewPR |-> FALSE, err |-> "nil",
                retURL |-> "", retIsNewPR |-> FALSE]

\* return "", false, err (the deferred os.Remove drops the body file).
PrReturnErr(ret, e) ==
    [ret EXCEPT !.pc = "returned", !.err = e, !.retURL = "", !.retIsNewPR = FALSE,
                !.prBodyFile = ""]

\* if len(opts.Body) > 0 { ... os.CreateTemp ... }
PrBodyFile ==
    /\ fnCall.op = "CreatePRIfNotExist"
    /\ fnRet.pc = "body"
    /\ IF ~fnCall.body THEN fnRet' = [fnRet EXCEPT !.pc = "view"]
       ELSE IF fnCall.tempFails
         THEN fnRet' = PrReturnErr(fnRet, "creating PR body file")
       ELSE fnRet' = [fnRet EXCEPT !.pc = "view", !.prBodyFile = "pr-body"]
    /\ UNCHANGED << pipelineVars, wcVars, fnCall >>

\* A lookup that takes a closed pull request for the current one.
PrView_AnyState ==
    /\ fnRet.pc = "view"
    /\ LET v == fnCall.view
           ran == [fnRet EXCEPT !.commands = Append(@, "view")]
       IN  IF v.runErr THEN fnRet' = PrReturnErr(ran, "checking existing PR")
           ELSE IF v.exit = 0 /\ ~v.json
             THEN fnRet' = PrReturnErr(ran, "unmarshaling existing PR")
           ELSE IF v.exit = 0
             THEN fnRet' = [ran EXCEPT !.pc = "decide", !.prURL = v.url]
           ELSE fnRet' = [ran EXCEPT !.pc = "decide"]
    /\ UNCHANGED << pipelineVars, wcVars, fnCall >>

\* exec.Run(ctx, "gh", "pr", "view", "--json", "url,state"), and the decoding
\* of its output when the exit code is zero: prURL is the URL of the pull
\* request unless its state is CLOSED.
PrView ==
    /\ fnRet.pc = "view"
    /\ LET v == fnCall.view
           ran == [fnRet EXCEPT !.commands = Append(@, "view")]
       IN  IF v.runErr THEN fnRet' = PrReturnErr(ran, "checking existing PR")
           ELSE IF v.exit = 0 /\ ~v.json
             THEN fnRet' = PrReturnErr(ran, "unmarshaling existing PR")
           ELSE IF v.exit = 0 /\ v.state # "CLOSED"
             THEN fnRet' = [ran EXCEPT !.pc = "decide", !.prURL = v.url]
           ELSE fnRet' = [ran EXCEPT !.pc = "decide"]
    /\ UNCHANGED << pipelineVars, wcVars, fnCall >>

\* if prURL == "": exec.RunX(ctx, "gh", "pr", "create", ...); its output is
\* the URL returned, with isNewPR = true.
PrCreate ==
    /\ fnRet.pc = "decide"
    /\ fnRet.prURL = ""
    /\ LET ran == [fnRet EXCEPT !.commands = Append(@, "create")] IN
         IF fnCall.createFails
           THEN fnRet' = PrReturnErr(ran, "failed to create PR")
           ELSE fnRet' = [ran EXCEPT !.pc = "returned", !.prURL = "pull/22",
                                     !.isNewPR = TRUE, !.retURL = "pull/22",
                                     !.retIsNewPR = TRUE, !.prBodyFile = ""]
    /\ UNCHANGED << pipelineVars, wcVars, fnCall >>

\* else: exec.RunX(ctx, "gh", "pr", "edit", ...) on the existing pull request.
PrEdit ==
    /\ fnRet.pc = "decide"
    /\ fnRet.prURL # ""
    /\ LET ran == [fnRet EXCEPT !.commands = Append(@, "edit")] IN
         IF fnCall.editFails
           THEN fnRet' = PrReturnErr(ran, "failed to update PR")
           ELSE fnRet' = [ran EXCEPT !.pc = "returned", !.retURL = fnRet.prURL,
                                     !.retIsNewPR = fnRet.isNewPR,
                                     !.prBodyFile = ""]
    /\ UNCHANGED << pipelineVars, wcVars, fnCall >>

PrNext ==
    \/ PrBodyFile
    \/ PrView
    \/ PrCreate
    \/ PrEdit

PrSpec == PrInit /\ [][PrNext]_vars

\* ------------------------------------------------------------- vocabulary
Returned == cPc = "returned"

Success == Returned /\ retErr = NilErr

N == SumLen(repoPages)

Accepted == { k \in Names : filterIn(Repo(k)) }

M == Cardinality(Accepted)

\* The repositories whose processing failed with an error that is not
\* errNoDefaultBranch, and those for which the processor returned an error.
Failed == { k \in Names : outcome[k] \in {"procerr", "giterr"} }

ProcFailed == { k \in Names : outcome[k] = "procerr" }

\* The message of error e contains the name of repository r: as the name the
\* worker put in front, or in the text of the failure of r it wraps.
NamesRepo(e, r) == e.kind = "processing" /\ (e.name = r \/ e.cause = r)

\* ------------------------------------------------------------------- C1
\* C1: a run that returns without error returns Found = N, Inspected = N,
\* Processed = M and has invoked the processor exactly once per accepted
\* repository and never for a rejected one.  Stated here for the runs whose
\* context is not cancelled and whose repositories all have a default
\* branch; the code breaks it on an accepted repository of size zero, which
\* processRepository hands to the processor twice.
C1_CountsAndInvocations ==
    ( /\ Success
      /\ ~ctxDone
      /\ \A k \in Names : Repo(k).DefaultBranchName # "" )
    => /\ retResult = [Found |-> N, Inspected |-> N, Processed |-> M]
       /\ \A k \in Names : invoked[k] = IF k \in Accepted THEN 1 ELSE 0

\* ------------------------------------------------------------------- C2
\* C2: when the processor returned an error for exactly one repository R of
\* several accepted ones, nothing else failed and the context is not
\* cancelled, a run that has returned has returned a non-nil error naming R
\* and the zero Result.
C2_SingleFailureReported ==
    ( /\ Returned
      /\ ~ctxDone
      /\ Cardinality(Accepted) >= 2
      /\ Cardinality(ProcFailed) = 1
      /\ Failed = ProcFailed )
    => /\ retErr # NilErr
       /\ \A r \in ProcFailed : NamesRepo(retErr, r)
       /\ retResult = ZeroResult

\* ------------------------------------------------------------------- C3
\* C3: when the context was cancelled while a repository was being
\* processed, a run that has returned has returned the cancellation error.
\* Stated here for the runs in which no processing fails.
C3_CancelledReturnsCanceled ==
    ( /\ Returned
      /\ cancelInFlight
      /\ Failed = {} )
    => retErr = ctxErr

\* ------------------------------------------------------------------- C4
\* C4: under fair scheduling, with every processor invocation returning,
\* every execution reaches a return of RunForOrganization.
C4_EventuallyReturns == <>Returned

\* ------------------------------------------------------------------- C5
\* C5: a return yields either a nil error with the three counters or a
\* non-nil error with the zero Result, never an error with a non-zero
\* Result, and the run does not panic instead of returning.
C5_ExactlyOneOutcome ==
    /\ Returned =>
         \/ /\ retErr = NilErr
            /\ retResult = [Found |-> mFound, Inspected |-> mInspected,
                            Processed |-> mProcessed]
         \/ /\ retErr # NilErr
            /\ retResult = ZeroResult
    /\ ~(panicked /\ ~Returned)

\* ------------------------------------------------------------------- C6
\* C6 as stated: with zero records a run that has returned has returned the
\* zero counters and a nil error, with no processor invocation and every
\* worker terminated.
C6_EmptyRunOriginal ==
    (N = 0 /\ Returned)
    => /\ retErr = NilErr
       /\ retResult = ZeroResult
       /\ \A w \in Workers : wPc[w] = "exit" /\ wRepo[w] = 0

\* C6 as amended: with zero records and a context that is not cancelled the
\* run does not panic, and once it has returned it has returned the zero
\* counters and a nil error, no worker has received a repository (so the
\* processor was never invoked) and every worker has terminated.
C6_EmptyRun ==
    (N = 0 /\ ~ctxDone)
    => /\ ~panicked
       /\ repoC = << >>
       /\ \A w \in Workers : wRepo[w] = 0 /\ wPc[w] \in {"recv", "exit"}
       /\ Returned =>
            /\ retErr = NilErr
            /\ retResult = ZeroResult
            /\ \A w \in Workers : wPc[w] = "exit"

C6_Witness ==
    /\ N = 0
    /\ ~ctxDone
    /\ Success
    /\ nOfWorkers = MaxWorkers
    /\ \A w \in Workers : wPc[w] = "exit"

\* ------------------------------------------------------------------- C7
\* C7: when the processing of some repository failed with an error other
\* than errNoDefaultBranch and the context is not cancelled, a run that has
\* returned has returned a non-nil error.
C7_ErrorsNotDropped ==
    (Returned /\ ~ctxDone /\ Failed # {}) => retErr # NilErr

\* ------------------------------------------------------------------- C8
\* C8: a worker's decision after processRepository depends only on what
\* that call returned to it: it goes back to receiving only when its own
\* processing returned nil or errNoDefaultBranch, and it sends an error
\* only when its own processing failed.
C8_DecisionIsLocal ==
    [][ \A w \in Workers :
          /\ (wPc[w] \in {"check", "is"} /\ wPc'[w] = "recv")
               => outcome[wRepo[w]] \in {"ok", "nobranch"}
          /\ (wPc[w] = "send" /\ wPc'[w] = "exit")
               => outcome[wRepo[w]] \in {"procerr", "giterr"} ]_vars

\* ------------------------------------------------------------------- C9
\* C9: once the run has returned a processing error or a success Result
\* (anything but the cancellation error), every worker has terminated and
\* no processor invocation is running.
C9_WorkersDoneAtReturn ==
    (Returned /\ retErr # ctxErr)
    => /\ \A w \in Workers : wPc[w] = "exit"
       /\ Running = {}
       /\ wg = 0

C9_Witness ==
    /\ Returned
    /\ retErr.kind = "processing"
    /\ nOfWorkers = MaxWorkers
    /\ Cardinality(Accepted) >= 2
    /\ \E k \in Names : outcome[k] = "ok"

\* ------------------------------------------------------------------ C10
\* The run loop has received a worker's error in its select (and has closed
\* doneC, or panicked doing so).
ErrReceived == cErr # NilErr

\* C10: once the run loop has received a worker's error, the
\* producer enqueues no further repository and no worker starts processing
\* a repository it had not already begun.
C10_NoDispatchAfterErrorOriginal ==
    [][ ErrReceived =>
          /\ ~(pPc = "send" /\ pPc' = "inspect")
          /\ \A w \in Workers :
               ~(wPc[w] = "select" /\ wPc'[w] \in {"procEmpty", "proc", "check"}) ]_vars

\* ------------------------------------------------------------------ C11
\* C11: a worker that holds a dequeued repository while the context is
\* cancelled does not start processRepository for it and goes back to
\* receiving; a worker leaves its receive loop only when repoC is closed and
\* empty; and once the producer has seen the cancellation in its select it
\* puts nothing on repoC.
C11_DrainOnCancel ==
    [][ /\ \A w \in Workers :
             /\ (ctxDone /\ wPc[w] = "select" /\ wPc'[w] # "select")
                  => /\ wPc'[w] = "recv"
                     /\ invoked' = invoked
                     /\ outcome' = outcome
             /\ (wPc[w] = "recv" /\ wPc'[w] = "exit")
                  => (repoCClosed /\ repoC = << >>)
        /\ (ctxDone /\ pPc = "inspect") => pPc' # "send"
        /\ pPc = "done" => (pPc' = "done" /\ Len(repoC') <= Len(repoC)) ]_vars

\* A worker has skipped a repository it had dequeued (nothing was invoked
\* for it and processRepository returned nothing) and is receiving again,
\* and the producer has returned from its select before the end of its walk.
C11_Witness ==
    /\ ctxDone
    /\ ~panicked
    /\ pPc = "done"
    /\ pPage <= Len(repoPages)
    /\ \E w \in Workers :
         /\ wPc[w] = "recv"
         /\ wRepo[w] # 0
         /\ invoked[wRepo[w]] = 0
         /\ outcome[wRepo[w]] = "none"

\* ------------------------------------------------------------------ C12
\* C12: when the context is cancelled while the run loop is in its select,
\* the run eventually returns the cancellation error, even if a processor
\* invocation that is running never returns.
C12_CancelDoesNotWait ==
    (ctxDone /\ cPc = "select") ~> (Returned /\ retErr = ctxErr)

\* ------------------------------------------------------------------ C13
\* C13: a worker whose processRepository returned errNoDefaultBranch sends
\* nothing on errC and does not exit: it goes back to receiving.
C13_NoDefaultBranchSkipped ==
    [][ \A w \in Workers :
          (wPc[w] \in {"check", "is"} /\ outcome[wRepo[w]] = "nobranch")
            => /\ wPc'[w] \in {"check", "is", "recv"}
               /\ errC' = errC \/ Len(errC') < Len(errC)
                  \/ \E v \in Workers \ {w} : wPc[v] = "send" /\ wPc'[v] = "exit" ]_vars

\* ------------------------------------------------------------------ C14
\* C14: for a repository of size zero processRepository calls the processor
\* once, with isEmpty = true and an Execer without directory, and never
\* calls cloneRepositoryOrGetFromCache.
C14_EmptyRepositoryOnce ==
    \A c \in Calls :
      callRepo[c].Size = 0 =>
        /\ ~acquired[c]
        /\ Len(invocations[c]) <= 1
        /\ \A i \in 1..Len(invocations[c]) : invocations[c][i] = << TRUE, NoPath >>
        /\ pcCall[c] = "done" => Len(invocations[c]) = 1

\* ------------------------------------------------------------------ C15
\* No acquisition has failed so far.
NoAcquisitionFailed == \A c \in Calls : callErr[c] \in {"none", "nil", "processor"}

\* The calls that ran cloneRepository for repository n with cache key k.
Materializers(n, k) ==
    { c \in Calls : callRepo[c].Name = n /\ callRepo[c].Key = k /\ materialized[c] }

\* C15: when the acquisitions did not overlap and none of them failed, at
\* most one acquisition per repository and non-empty cache key has run the
\* materialization (the first one: the others found the directory).
C15_MaterializedOnce ==
    (~overlapped /\ NoAcquisitionFailed)
    => \A n \in 1..MaxNames : Cardinality(Materializers(n, "k")) <= 1

\* ------------------------------------------------------------------ C16
\* C16: with a non-empty cache key the path handed to the processor is not
\* the cache entry, and removing it when processRepository returns leaves
\* the cache entry in place; with an empty one the path is cloneDir itself.
C16_ReturnedPath ==
    [][ \A c \in Calls :
          /\ (pcCall[c] # "proc" /\ pcCall'[c] = "proc")
               => /\ invocations'[c][Len(invocations'[c])] = << FALSE, repoDir'[c] >>
                  /\ IF callRepo[c].Key = ""
                       THEN repoDir'[c] = CloneDir(c)
                       ELSE repoDir'[c] # CloneDir(c)
          /\ (pcCall[c] = "proc" /\ pcCall'[c] = "done" /\ callRepo[c].Key # ""
                /\ CloneDir(c) \in reposDir)
               => CloneDir(c) \in reposDir' ]_vars

\* A call with a cache key has returned nil: the path its processor worked
\* on is gone and the cache entry is still there.
C16_Witness ==
    \E c \in Calls :
      /\ callRepo[c].Key # ""
      /\ pcCall[c] = "done"
      /\ callErr[c] = "nil"
      /\ repoDir[c] # NoPath
      /\ repoDir[c] \notin reposDir
      /\ CloneDir(c) \in reposDir

\* ------------------------------------------------------------------ C17
\* C17: two calls with a non-empty cache key whose processors are running
\* at the same time work on different paths.
C17_DistinctWorkingPaths ==
    \A c, d \in Calls :
      ( /\ c # d
        /\ callRepo[c].Key # "" /\ callRepo[d].Key # ""
        /\ pcCall[c] = "proc" /\ pcCall[d] = "proc" )
      => repoDir[c] # repoDir[d]

\* ------------------------------------------------------------------ C18
\* C18: a cache entry whose materialization has completed exists ever after.
C18_CacheEntriesKept == cached \subseteq reposDir

\* ------------------------------------------------------------------ C19
\* C19: when processRepository returns after its acquisition succeeded
\* (the processor was called on a path), that path does not exist any more,
\* whatever the processor returned.
C19_PathReleased ==
    [][ \A c \in Calls :
          (pcCall[c] = "proc" /\ pcCall'[c] = "done") => repoDir[c] \notin reposDir' ]_vars

\* A call whose processor failed on its path has returned and the path is
\* gone.
C19_Witness ==
    \E c \in Calls :
      /\ pcCall[c] = "done"
      /\ callErr[c] = "processor"
      /\ Len(invocations[c]) >= 1
      /\ invocations[c][Len(invocations[c])] = << FALSE, repoDir[c] >>
      /\ repoDir[c] \notin reposDir

\* ------------------------------------------------------------------ C20
\* C20: an acquisition without cache key that succeeds has run the
\* materialization itself: it has not found the directory of another
\* acquisition under its own key.
C20_NoReuseWithoutCache ==
    \A c \in Calls :
      (callRepo[c].Key = "" /\ pcCall[c] \in {"ready", "proc"}) => materialized[c]

\* ------------------------------------------------------------------ C21
\* The checks the options enable, each stated on its own.
EnabledChecksHold(so, r) ==
    /\ so.FilterIn # "nil" => CallFilterIn(so.FilterIn, r)
    /\ so.Language # "" => r.Language = so.Language
    /\ so.ArchiveCondition = OnlyArchived => r.Archived
    /\ so.ArchiveCondition = OmitArchived => ~r.Archived
    /\ so.Source = OnlyForks => r.Fork
    /\ so.Source = OnlyNonForks => ~r.Fork
    /\ so.Visibility = VisibilityPublic => r.Visibility = "public"
    /\ so.Visibility = VisibilityPrivate => r.Visibility = "private"
    /\ so.Visibility = VisibilityInternal => r.Visibility = "internal"
    /\ so.SizeCondition = NotEmpty => r.Size > 0
    /\ so.SizeCondition = OnlyEmpty => r.Size = 0

\* C21: the predicate MakeFilterIn returns accepts a repository exactly when
\* every check the options enable holds of it (custom predicate, language,
\* archived, fork, visibility, size); a dimension left at its zero value
\* rejects nothing, and the zero options accept every repository.
C21_FilterIsConjunction ==
    fnCall.op = "MakeFilterIn" =>
        \A i \in 1..Len(fnRet.out) : \A k \in 1..Len(fnRet.out[i]) :
            /\ fnRet.out[i][k] = EnabledChecksHold(fnCall.so, fnCall.r)
            /\ fnCall.so = ZeroOptions => fnRet.out[i][k]

\* Every dimension is enabled and the repository passes the six checks.
C21_Witness ==
    /\ fnCall.op = "MakeFilterIn"
    /\ Len(MakeFilterIn(fnCall.so).filters) = 6
    /\ Len(fnRet.out) >= 1
    /\ Len(fnRet.out[1]) >= 1
    /\ fnRet.out[1][1]

Terminator(s) ==
    IF \E i \in 1..Len(s) : LineLen(s[i]) <= 2
      THEN CHOOSE i \in 1..Len(s) :
             /\ LineLen(s[i]) <= 2
             /\ \A j \in 1..(i - 1) : LineLen(s[j]) > 2
      ELSE Len(s) + 1

\* The JSON arrays among the lines, and the records each one lists.
JSONArrays ==
    { << "[", "]" >>, << "[", "a", "]" >>, << "[", "a", ",", "b", "]" >>,
      << "[", "b", ",", "a", "]" >>, << "[", "a", "pad", "]" >> }

ArrayOf(line) ==
    CASE line = << "[", "]" >> -> << >>
      [] line = << "[", "a", "]" >> -> << [Name |-> "a"] >>
      [] line = << "[", "a", ",", "b", "]" >> -> << [Name |-> "a"], [Name |-> "b"] >>
      [] line = << "[", "b", ",", "a", "]" >> -> << [Name |-> "b"], [Name |-> "a"] >>
      [] line = << "[", "a", "pad", "]" >> -> << [Name |-> "a"] >>
      [] OTHER -> << >>

\* The lines before the terminator that the scanner can hand to the decoder.
Scanned(s) ==
    { i \in 1..(Terminator(s) - 1) :
        \A j \in 1..i : LineLen(s[j]) < MaxScanTokenSize }

\* C23: when processRepoPages returns pages, they are the arrays of the
\* lines before the first line of at most 2 bytes, one page a line, in the
\* order of the lines and each with its records in the order of the array;
\* the terminator and the lines after it give no page.  It returns them
\* whenever each of these lines is a JSON array that fits in the scanner.
C23_PagesInOrder ==
    (fnCall.op = "processRepoPages" /\ fnRet.pc = "returned") =>
        LET s == fnCall.s
            n == Terminator(s) - 1
        IN  /\ fnRet.err = "nil" =>
                fnRet.repoPages = [i \in 1..n |-> ArrayOf(s[i])]
            /\ (\A i \in 1..n : i \in Scanned(s) /\ s[i] \in JSONArrays) =>
                fnRet.err = "nil"

\* Two pages of different record order, then the terminator, then a line
\* that would decode.
C23_Witness ==
    /\ fnCall.op = "processRepoPages"
    /\ fnRet.pc = "returned"
    /\ fnRet.err = "nil"
    /\ Len(fnCall.s) = 3
    /\ Len(fnRet.repoPages) = 1
    /\ Len(fnRet.repoPages[1]) = 2
    /\ fnRet.repoPages[1][1] = [Name |-> "b"]
    /\ LineLen(fnCall.s[2]) <= 2
    /\ ArrayOf(fnCall.s[3]) = << [Name |-> "a"] >>

\* ------------------------------------------------------------------ C24
\* C24: when a line before the terminator is not a JSON array,
\* processRepoPages returns an error and no page, whatever the lines before
\* it decoded to.
C24_NoPartialPages ==
    (fnCall.op = "processRepoPages" /\ fnRet.pc = "returned") =>
        LET s == fnCall.s IN
          (\E i \in 1..(Terminator(s) - 1) : s[i] \notin JSONArrays) =>
              /\ fnRet.err # "nil"
              /\ fnRet.repoPages = << >>

\* A page that decodes, then a line that does not.
C24_Witness ==
    /\ fnCall.op = "processRepoPages"
    /\ fnRet.pc = "returned"
    /\ Len(fnCall.s) >= 2
    /\ ArrayOf(fnCall.s[1]) = << [Name |-> "a"], [Name |-> "b"] >>
    /\ fnCall.s[2] = << "[", "a", ",", "]" >>
    /\ fnRet.err = "unmarshaling"

\* ------------------------------------------------------------------ C25
\* The paging options RunForOrganization rejects.
InvalidPaging ==
    \/ fnCall.PerPage < 0
    \/ fnCall.Page < 0 /\ fnCall.Page # AllPages

\* C25: once the paging options are read, a negative PerPage or a negative
\* Page other than AllPages has returned an error and the zero Result, and
\* neither the listing command nor a worker nor the processor has run; any
\* other value is accepted, PerPage = 0 gives the default page size and
\* Page = 0 no page argument, and the page size of the listing call is
\* between 1 and maxPerPage.
C25_PagingValidated ==
    (fnCall.op = "RunForOrganization" /\ fnRet.pc # "paging") =>
        IF InvalidPaging
          THEN /\ fnRet.pc = "returned"
               /\ fnRet.err \in { "invalid negative SearchOptions.PerPage",
                                  "invalid negative SearchOptions.Page" }
               /\ fnRet.Result = ZeroResult
               /\ fnRet.ghCalls = 0
               /\ fnRet.workers = 0
               /\ fnRet.processorCalls = 0
          ELSE /\ fnRet.err \notin { "invalid negative SearchOptions.PerPage",
                                     "invalid negative SearchOptions.Page" }
               /\ fnRet.perPage \in 1..maxPerPage
               /\ fnCall.PerPage = 0 => fnRet.perPage = defaultPerPage
               /\ fnCall.PerPage \in 1..maxPerPage => fnRet.perPage = fnCall.PerPage
               /\ fnCall.Page = 0 => fnRet.page = ""
               /\ fnCall.Page = AllPages => fnRet.page = "--paginate"

\* A call with a valid PerPage and a negative Page has returned.
C25_Witness ==
    /\ fnCall.op = "RunForOrganization"
    /\ fnCall.PerPage = 1
    /\ fnCall.Page = -2
    /\ fnRet.pc = "returned"
    /\ fnRet.err = "invalid negative SearchOptions.Page"

\* ------------------------------------------------------------------ C26
\* C26: once the listing command has failed, or once the decoding of its
\* output has failed, RunForOrganization has returned an error and the zero
\* Result, no worker was started and the processor was not invoked.
C26_ListingErrorsAbort ==
    fnCall.op = "RunForOrganization" =>
        /\ (fnRet.ghCalls > 0 /\ fnCall.ghFails) =>
              /\ fnRet.pc = "returned"
              /\ fnRet.err = "fetching repositories"
              /\ fnRet.Result = ZeroResult
              /\ fnRet.workers = 0
              /\ fnRet.processorCalls = 0
        /\ (fnRet.pc \in {"start", "running", "returned"} /\ fnRet.ghCalls > 0
              /\ ~fnCall.ghFails /\ processRepoPages(fnCall.res).err # "nil") =>
              /\ fnRet.pc = "returned"
              /\ fnRet.err = "processing repositories pages"
              /\ fnRet.Result = ZeroResult
              /\ fnRet.workers = 0
              /\ fnRet.processorCalls = 0

\* The listing command printed a page that decodes and then a line that does
\* not, and the call has returned.
C26_Witness ==
    /\ fnCall.op = "RunForOrganization"
    /\ fnRet.pc = "returned"
    /\ fnRet.err = "processing repositories pages"
    /\ Len(fnCall.res) >= 2
    /\ fnCall.res[1] = << "[", "a", "]" >>

\* ------------------------------------------------------------------ C27
\* Reading a file back: the texts that end at each newline, in order (a text
\* after the last newline would be one more line).
RECURSIVE SplitLines(_, _)
SplitLines(file, cur) ==
    IF file = << >> THEN (IF cur = << >> THEN << >> ELSE << cur >>)
    ELSE IF Head(file) = "\n" THEN << cur >> \o SplitLines(Tail(file), << >>)
    ELSE SplitLines(Tail(file), Append(cur, Head(file)))

ReadLines(file) == SplitLines(file, << >>)

HasNewline(l) == \E i \in 1..Len(l) : l[i] = "\n"

FillReturnedNil ==
    /\ fnCall.op = "fillLines"
    /\ fnRet.pc = "returned"
    /\ fnRet.err = "nil"

\* C27 as stated: whatever the N strings given, the file read back and split
\* on newlines yields the same N lines in the same order.
C27_RoundTripOriginal ==
    FillReturnedNil => ReadLines(fnRet.file) = fnCall.lines

\* C27: when none of the N given strings contains a newline, the file read
\* back and split on newlines (the trailing one ignored) yields the same N
\* lines in the same order, whatever the file held before; a string that
\* contains a newline is read back as more than one line.
C27_RoundTrip ==
    FillReturnedNil =>
        IF \A i \in 1..Len(fnCall.lines) : ~HasNewline(fnCall.lines[i])
          THEN ReadLines(fnRet.file) = fnCall.lines
          ELSE Len(ReadLines(fnRet.file)) > Len(fnCall.lines)

\* Two different lines without newline, one of them of two characters, are
\* written and read back.
C27_Witness ==
    /\ FillReturnedNil
    /\ Len(fnCall.lines) = 2
    /\ fnCall.lines[1] = << "a", "/" >>
    /\ fnCall.lines[2] = << "a" >>
    /\ ReadLines(fnRet.file) = fnCall.lines

\* ------------------------------------------------------------------ C28
\* C28: Found >= Inspected >= Processed >= 0 in every state, in the counters
\* and in the Result returned; Found is the number of records of the pages
\* and never changes; Inspected and Processed change by one step of the
\* producer only, never decrease, and Processed grows only together with
\* Inspected and only when the predicate accepts the record inspected.
C28_Counters ==
    /\ [](/\ mFound >= mInspected /\ mInspected >= mProcessed /\ mProcessed >= 0
          /\ mFound = SumLen(repoPages)
          /\ retResult.Found >= retResult.Inspected
          /\ retResult.Inspected >= retResult.Processed
          /\ retResult.Processed >= 0)
    /\ [][/\ mFound' = mFound
          /\ mInspected' \in {mInspected, mInspected + 1}
          /\ mProcessed' \in {mProcessed, mProcessed + 1}
          /\ (mInspected' # mInspected \/ mProcessed' # mProcessed) =>
                /\ pPc = "inspect"
                /\ pPage <= Len(repoPages)
                /\ pIdx <= Len(repoPages[pPage])
                /\ mInspected' = mInspected + 1
                /\ UNCHANGED << workerVars, runVars >>
                /\ mProcessed' # mProcessed <=> filterIn(repoPages[pPage][pIdx])]_vars

\* Two records found and inspected, one of them accepted.
C28_Witness ==
    /\ mFound = 2
    /\ mInspected = 2
    /\ mProcessed = 1
    /\ retResult = [Found |-> 2, Inspected |-> 2, Processed |-> 1]

\* ------------------------------------------------------------------ C29
\* The names of the records the predicate accepts, in page order.
AcceptedInOrder ==
    LET flat == Flatten(repoPages) IN
      SelectSeq([k \in 1..Len(flat) |-> k], LAMBDA k : filterIn(flat[k]))

\* C29: the repositories the producer has put on repoC are, in the order of
\* the sends, the first ones of the accepted records in page order: none is
\* missing before the last one sent, none comes twice and none is out of
\* order, whatever the workers have done with them.
C29_EnqueuedInPageOrder ==
    /\ Len(enqueued) <= Len(AcceptedInOrder)
    /\ enqueued = SubSeq(AcceptedInOrder, 1, Len(enqueued))

\* Both records were sent, and the second one was processed while the first
\* one was not yet.
C29_Witness ==
    /\ enqueued = << 1, 2 >>
    /\ outcome[2] # "none"
    /\ outcome[1] = "none"

\* ------------------------------------------------------------------ C30
\* The producer and every worker have left their function.
GoroutinesDone == pPc = "done" /\ \A w \in Workers : wPc[w] = "exit"

\* C30: once RunForOrganization has returned and no processor invocation is
\* in flight, the producer and every worker eventually terminate: none stays
\* blocked for ever on a channel.  (A panic ends the process and every
\* goroutine with it.)
C30_GoroutinesTerminate ==
    (Returned /\ Running = {}) ~> (panicked \/ GoroutinesDone)

\* ------------------------------------------------------------------ C31
\* The entries "k1=v1", ..., "kn=vn" of the pairs in kv, in order; a last
\* key without value gives none.
RECURSIVE EnvEntries(_)
EnvEntries(kv) ==
    IF Len(kv) < 2 THEN << >>
    ELSE << kv[1] \o "=" \o kv[2] >> \o EnvEntries(SubSeq(kv, 3, Len(kv)))

\* C31: WithEnv returns (it does not panic) an executor with the directory
\* of the parent whose environment is the environment of the parent followed
\* by the entries of the pairs given, in order; without arguments it is the
\* parent's environment.
C31_WithEnvAppends ==
    (fnCall.op = "WithEnv" /\ fnRet.pc # "call") =>
        /\ fnRet.pc = "returned"
        /\ fnRet.dir = fnCall.e.dir
        /\ fnRet.env = fnCall.e.env \o EnvEntries(fnCall.kv)

\* ------------------------------------------------------------------ C32
PrReturned == fnCall.op = "CreatePRIfNotExist" /\ fnRet.pc = "returned"

\* How many times a command was issued.
Issued(c) ==
    Cardinality({ i \in 1..Len(fnRet.commands) : fnRet.commands[i] = c })

\* The lookup found a pull request that is not closed.
PrCurrent ==
    /\ ~fnCall.view.runErr /\ fnCall.view.exit = 0 /\ fnCall.view.json
    /\ fnCall.view.state # "CLOSED"

\* The lookup found no pull request, or a closed one.
PrAbsent ==
    /\ ~fnCall.view.runErr
    /\ \/ fnCall.view.exit # 0
       \/ fnCall.view.json /\ fnCall.view.state = "CLOSED"

\* C32 as stated, once the lookup was issued: a failed lookup returns an error without create or edit; a
\* pull request that is not closed is returned with isNewPR = false and no
\* create is issued; otherwise exactly one create is issued and its URL is
\* returned with isNewPR = true.
C32_CreateIfNotExistOriginal ==
    (PrReturned /\ Issued("view") = 1) =>
        /\ fnCall.view.runErr =>
              /\ fnRet.err # "nil"
              /\ Issued("create") = 0 /\ Issued("edit") = 0
        /\ PrCurrent =>
              /\ fnRet.retURL = fnCall.view.url /\ ~fnRet.retIsNewPR
              /\ Issued("create") = 0
        /\ PrAbsent =>
              /\ Issued("create") = 1
              /\ fnRet.retURL = "pull/22" /\ fnRet.retIsNewPR

\* C32: the lookup is the first command and is issued once, after the body
\* file, if any, was created.  A failed lookup, or an output of the lookup
\* that does not decode, returns an error without create or edit.  For a
\* pull request that is not closed no create and exactly one edit is issued,
\* and its URL is returned with isNewPR = false unless the edit fails.  When
\* there is none or it is closed, no edit and exactly one create is issued,
\* and the URL created is returned with isNewPR = true unless the create
\* fails.  Every failure returns an error, no URL and isNewPR = false.
C32_CreateIfNotExist ==
    PrReturned =>
        /\ fnRet.commands # << >> =>
              fnRet.commands[1] = "view" /\ Issued("view") = 1
        /\ fnRet.commands = << >> <=> (fnCall.body /\ fnCall.tempFails)
        /\ fnRet.err # "nil" => fnRet.retURL = "" /\ ~fnRet.retIsNewPR
        /\ fnRet.commands # << >> =>
            /\ (fnCall.view.runErr \/ (fnCall.view.exit = 0 /\ ~fnCall.view.json)) =>
                  /\ fnRet.err # "nil"
                  /\ Issued("create") = 0 /\ Issued("edit") = 0
            /\ PrCurrent =>
                  /\ Issued("create") = 0 /\ Issued("edit") = 1
                  /\ IF fnCall.editFails THEN fnRet.err = "failed to update PR"
                     ELSE /\ fnRet.err = "nil"
                          /\ fnRet.retURL = fnCall.view.url /\ ~fnRet.retIsNewPR
            /\ PrAbsent =>
                  /\ Issued("create") = 1 /\ Issued("edit") = 0
                  /\ IF fnCall.createFails THEN fnRet.err = "failed to create PR"
                     ELSE /\ fnRet.err = "nil"
                          /\ fnRet.retURL = "pull/22" /\ fnRet.retIsNewPR

\* The current pull request is closed, and a new one was created.
C32_Witness ==
    /\ PrReturned
    /\ fnCall.view.state = "CLOSED"
    /\ fnRet.commands = << "view", "create" >>
    /\ fnRet.retURL = "pull/22"
    /\ fnRet.retIsNewPR

\* ------------------------------------------------------------------ C33
\* C33: errC never holds more errors than there are workers that have left,
\* so never more than its capacity nOfWorkers, and a worker about to send
\* finds room in it; a send is the last step of a worker: it leaves with it,
\* and a worker that has left takes no repository and sends nothing more.
C33_OneErrorPerWorker ==
    /\ [](/\ Len(errC) <= Cardinality({ w \in Workers : wPc[w] = "exit" })
          /\ Len(errC) <= nOfWorkers
          /\ \A w \in Workers :
                (wPc[w] = "send" /\ ~errCClosed) => Len(errC) < nOfWorkers)
    /\ [][/\ \A w \in Workers : wPc[w] = "exit" =>
                wPc'[w] = "exit" /\ wRepo'[w] = wRepo[w]
          /\ Len(errC') > Len(errC) =>
                /\ Len(errC') = Len(errC) + 1
                /\ \E w \in Workers :
                      /\ wPc[w] = "send" /\ wPc'[w] = "exit"
                      /\ \A v \in Workers \ {w} : wPc'[v] = wPc[v]]_vars

\* Every worker has sent its error and errC is full.
C33_Witness ==
    /\ nOfWorkers = 2
    /\ Len(errC) = 2
    /\ \A w \in Workers : wPc[w] = "exit"

\* ------------------------------------------------------------------ C34
\* C34: repoC never holds more than nOfWorkers repositories and holds the
\* last ones sent, in the order sent; no more than nOfWorkers processor
\* invocations run at once; a producer that finds repoC full stays at its
\* send with the same repository until a worker has received one.  The
\* number of workers is opts.NumberOfWorkers when it is positive and 10
\* otherwise.
C34_BoundedQueue ==
    /\ [](/\ Len(repoC) <= nOfWorkers
          /\ Len(repoC) <= Len(enqueued)
          /\ repoC = SubSeq(enqueued, Len(enqueued) - Len(repoC) + 1, Len(enqueued))
          /\ Cardinality(Running) <= nOfWorkers
          /\ nOfWorkers \in 1..MaxWorkers
          /\ \A n \in -1..MaxWorkers :
                NumberOfWorkersOf(n) = IF n > 0 THEN n ELSE 10)
    /\ [][(pPc = "send" /\ Len(repoC) = nOfWorkers) =>
             /\ pPc' = "send" /\ pPage' = pPage /\ pIdx' = pIdx
             /\ enqueued' = enqueued
             /\ repoC' \in {repoC, Tail(repoC)}]_vars

\* repoC is full and the producer waits with the next repository.
C34_Witness ==
    /\ pPc = "send"
    /\ Len(repoC) = nOfWorkers
    /\ Len(enqueued) = 1
    /\ Running = {}

\* ------------------------------------------------------------------ C35
\* C35: no step closes doneC when it is closed already (such a close is the
\* panic of the producer at the end of its walk, or of the run loop in its
\* select).
C35_DoneClosedOnce ==
    [][~(/\ doneCClosed /\ ~panicked /\ panicked'
         /\ (cPc = "select" \/ repoCClosed' # repoCClosed))]_vars

\* ------------------------------------------------------------------ C36
\* C36: no worker sends on errC once it is closed (such a send is the panic
\* of a worker; the run loop has returned by then).
C36_NoSendOnClosed ==
    [][~(/\ errCClosed /\ ~panicked /\ panicked'
         /\ repoCClosed' = repoCClosed
         /\ \E w \in Workers : wPc[w] = "send")]_vars

\* ------------------------------------------------------------------ C37
\* The workers that hold a repository they received.
Holding == { w \in Workers : wPc[w] \notin {"recv", "exit"} }

\* C37: a repository goes to a worker by a receive that takes it from the
\* head of repoC, one worker a step; what was sent and not yet received is
\* what repoC holds, nothing is sent twice, so no two workers hold the same
\* repository; and when the run returns a success repoC is empty.
C37_ReceivedOnce ==
    /\ [](/\ Len(repoC) <= Len(enqueued)
          /\ repoC = SubSeq(enqueued, Len(enqueued) - Len(repoC) + 1, Len(enqueued))
          /\ \A i, j \in 1..Len(enqueued) : enqueued[i] = enqueued[j] => i = j
          /\ \A v, w \in Holding : wRepo[v] = wRepo[w] => v = w
          /\ \A w \in Holding :
                \E i \in 1..(Len(enqueued) - Len(repoC)) : enqueued[i] = wRepo[w]
          /\ Success => repoC = << >>)
    /\ [][wRepo' # wRepo =>
             /\ repoC # << >>
             /\ repoC' = Tail(repoC)
             /\ \E w \in Workers :
                   /\ wPc[w] = "recv"
                   /\ wRepo' = [wRepo EXCEPT ![w] = Head(repoC)]]_vars

\* Both repositories were sent and received, the second one by worker 1, and
\* the run returned a success.
C37_Witness ==
    /\ Success
    /\ enqueued = << 1, 2 >>
    /\ wRepo = << 2, 1 >>
    /\ outcome[1] = "ok" /\ outcome[2] = "ok"

\* ------------------------------------------------------------------ C38
\* C38: no step removes the path the processor of a call is running on.
C38_WorkingDirKept ==
    [][\A c \in Calls :
         (pcCall[c] = "proc" /\ pcCall'[c] = "proc" /\ repoDir[c] \in reposDir)
           => repoDir[c] \in reposDir']_vars

\* ------------------------------------------------------------------ C39
\* The errors cloneRepository returns.
MaterializationErrs == {"git", "nobranch"}

\* The calls whose materialization of the directory of d has not failed.
GoodMaterializers(d) ==
    { e \in Calls : /\ CloneDir(e) = CloneDir(d)
                    /\ materialized[e]
                    /\ callErr[e] \notin MaterializationErrs }

\* C39: when cloneRepository fails, "no default branch" included, cloneDir
\* does not exist any more as processRepository returns the error; and an
\* acquisition that comes after the others have ended goes past its os.Stat
\* with a directory whose materialization has not failed: after a failed
\* one it has materialized the directory itself.
C39_FailedCloneRemoved ==
    /\ [][\A c \in Calls :
            (pcCall[c] = "clone" /\ pcCall'[c] = "done")
              => /\ callErr'[c] \in MaterializationErrs
                 /\ CloneDir(c) \notin reposDir']_vars
    /\ [](~overlapped =>
            \A d \in Calls :
              pcCall[d] \in {"ready", "cp", "proc"} => GoodMaterializers(d) # {})

\* The materialization of the first call failed on a missing default branch
\* and the second call, which came after it with the same key, has
\* materialized the directory again.
C39_Witness ==
    /\ ~overlapped
    /\ callRepo[1].Key = "k" /\ callRepo[2].Key = "k"
    /\ pcCall[1] = "done" /\ callErr[1] = "nobranch"
    /\ CloneDir(1) = CloneDir(2)
    /\ materialized[2]
    /\ pcCall[2] = "proc"

\* ------------------------------------------------------------------ C40
\* C40: an acquisition with a cache key that goes on with a directory it has
\* found (it has not run cloneRepository itself) goes on with one whose
\* materialization has completed.
C40_ReuseOnlyCompleted ==
    \A d \in Calls :
      (callRepo[d].Key # "" /\ pcCall[d] \in {"ready", "cp"} /\ ~materialized[d])
        => CloneDir(d) \in cached

====
